---- MODULE Spec2Model ----
(***************************************************************************)
(* A model of the `either` crate: the two-variant sum type Either<L, R>,   *)
(* its in-place mutation combinators (with the ptr::read / ptr::write      *)
(* sequences and the destructor runs they cause), its by-value combinators *)
(* and its forwarding implementations.                                     *)
(*                                                                         *)
(* A payload is an object with an identity (obj), so that destructor runs  *)
(* can be counted, and a value (v).  User closures are modelled by their   *)
(* calls: the argument they received and the result they gave back.        *)
(***************************************************************************)
EXTENDS Integers, Sequences, FiniteSets, TLC

\* Bounds of the model.
MaxVal == 1
MaxObj == 3
MaxLen == 2
MaxPolls == 2
MaxElems == 2
MaxCalls == 3

Vals == 0..MaxVal
ObjIds == 1..MaxObj
Tags == {"Left", "Right"}
NoVal == 0 - 1
None == [tag |-> "None", obj |-> 0, v |-> NoVal]
\* User-supplied panic messages, as sequences of text chunks.
Msgs == {<< >>, <<"msg">>}

VARIABLES
    self,                   \* the container: [tag, obj, v]
    moved,                  \* the payload was read out by ptr::read and not written back
    pc,                     \* "idle" | "in_f" | "unwinding" | "consumed" | "end" | "ub"
    call,                   \* the last method call on the container
    ref,                    \* the &mut returned by the last call: "none" | "Left" | "Right" | "Self" | "UB"
    drops,                  \* destructor runs per payload object
    nextObj,                \* next fresh payload object
    ret,                    \* the result of the last by-value method
    observed,               \* what the last reader of the container saw
    panic_immediate_abort   \* cargo feature "panic_immediate_abort"

vars == <<self, moved, pc, call, ref, drops, nextObj, ret, observed, panic_immediate_abort>>

\* ---------------------------------------------------------------------------
\* The type and its pure methods
\* ---------------------------------------------------------------------------

Left(o, x) == [tag |-> "Left", obj |-> o, v |-> x]

Right(o, x) == [tag |-> "Right", obj |-> o, v |-> x]

Either == [tag : Tags, obj : ObjIds, v : Vals]

is_left(e) == e.tag = "Left"

is_right(e) == e.tag = "Right"

\* Either<&L, &R>: a view with the tag of the container.
as_ref(e) ==
    CASE e.tag = "Left" -> [tag |-> "Left", obj |-> e.obj, v |-> e.v]
      [] e.tag = "Right" -> [tag |-> "Right", obj |-> e.obj, v |-> e.v]

\* &mut L into the Left payload; on Right the call is undefined behaviour.
as_left_unchecked_mut(e) == IF e.tag = "Left" THEN "Left" ELSE "UB"

as_right_unchecked_mut(e) == IF e.tag = "Right" THEN "Right" ELSE "UB"

\* flip with its Right arm returning Right.
flip_keeps_right(e) ==
    CASE e.tag = "Left" -> [tag |-> "Right", obj |-> e.obj, v |-> e.v]
      [] e.tag = "Right" -> [tag |-> "Right", obj |-> e.obj, v |-> e.v]

flip(e) ==
    CASE e.tag = "Left" -> Right(e.obj, e.v)
      [] e.tag = "Right" -> Left(e.obj, e.v)

\* fold with the two closures exchanged on Left.
fold_calls_r(e, l, r) ==
    CASE e.tag = "Left" -> r[e.v]
      [] e.tag = "Right" -> r[e.v]

\* fold(l, r): l and r are the two closures, as functions from the payload.
fold(e, l, r) ==
    CASE e.tag = "Left" -> l[e.v]
      [] e.tag = "Right" -> r[e.v]

fold_with(e, ctx, l, r) ==
    CASE e.tag = "Left" -> l[<<e.v, ctx>>]
      [] e.tag = "Right" -> r[<<e.v, ctx>>]

\* Text is a sequence of chunks; {value:?} of a payload is its decimal text.
DebugFmt(value) == <<ToString(value)>>

Contains(s, t) ==
    \E i \in 0..(Len(s) - Len(t)) : SubSeq(s, i + 1, i + Len(t)) = t

\* unwrap_failed that formats the message alone.
unwrap_failed_no_value(feature, message, value) ==
    [kind |-> "panic", e |-> [tag |-> "None", obj |-> 0, v |-> 0 - 1],
     msg |-> IF feature THEN <<"explicit panic">> ELSE message]

\* panic!("{message}: {value:?}"), or a bare panic!() under the feature
\* panic_immediate_abort.
unwrap_failed(feature, message, value) ==
    [kind |-> "panic", e |-> [tag |-> "None", obj |-> 0, v |-> 0 - 1],
     msg |-> IF feature THEN <<"explicit panic">>
                        ELSE message \o <<": ">> \o DebugFmt(value)]

Returned(e) == [kind |-> "value", e |-> [tag |-> "Bare", obj |-> e.obj, v |-> e.v], msg |-> << >>]

left_expect(feature, e, message) ==
    CASE e.tag = "Left" -> Returned(e)
      [] e.tag = "Right" -> unwrap_failed(feature, message, e.v)

right_expect(feature, e, message) ==
    CASE e.tag = "Left" -> unwrap_failed(feature, message, e.v)
      [] e.tag = "Right" -> Returned(e)

\* The fixed messages of the source, without their backquotes.
left_unwrap(feature, e) ==
    left_expect(feature, e, <<"Either::left_unwrap() is called on Right">>)

right_unwrap(feature, e) ==
    right_expect(feature, e, <<"Either::right_unwrap() is called on Left">>)

\* ---------------------------------------------------------------------------
\* Bookkeeping
\* ---------------------------------------------------------------------------

NoCall ==
    [op |-> "none", pre |-> None, arg |-> NoVal, src |-> None,
     fn |-> "none", fcalls |-> 0, farg |-> None, fctx |-> NoVal, fret |-> None,
     via |-> "none", prev |-> None, msg |-> << >>]

NoRet == [kind |-> "none", e |-> None, msg |-> << >>]

NotObserved == [is_left |-> FALSE, is_right |-> FALSE, view |-> None, moved |-> FALSE]

\* One more destructor run of payload object o.
Dropped(o) == [drops EXCEPT ![o] = @ + 1]

\* The state after a call that touched the payload or ran destructors:
\* touching a moved-out payload, or a second destructor run, is undefined.
After(touched, d) ==
    IF (touched /\ moved) \/ (\E o \in ObjIds : d[o] > 1) THEN "ub" ELSE "idle"

Init ==
    /\ \E t \in Tags, x \in Vals : self = [tag |-> t, obj |-> 1, v |-> x]
    /\ moved = FALSE
    /\ pc = "idle"
    /\ call = NoCall
    /\ ref = "none"
    /\ drops = [o \in ObjIds |-> 0]
    /\ nextObj = 2
    /\ ret = NoRet
    /\ observed = NotObserved
    /\ panic_immediate_abort \in BOOLEAN

\* ---------------------------------------------------------------------------
\* Construction and destruction
\* ---------------------------------------------------------------------------

\* Left(x) / Right(x): a new container, once the previous one is gone.
construct ==
    /\ pc \in {"consumed", "end"}
    /\ nextObj <= MaxObj
    /\ \E t \in Tags, x \in Vals : self' = [tag |-> t, obj |-> nextObj, v |-> x]
    /\ nextObj' = nextObj + 1
    /\ moved' = FALSE
    /\ pc' = "idle"
    /\ call' = [NoCall EXCEPT !.op = "new"]
    /\ ref' = "none"
    /\ ret' = NoRet
    /\ observed' = NotObserved
    /\ UNCHANGED <<drops, panic_immediate_abort>>

\* The owner lets go of the container (end of scope, or its frame is unwound):
\* the drop glue runs the destructor of the payload the tag designates.
drop_in_place ==
    /\ pc \in {"idle", "unwinding"}
    /\ drops' = Dropped(self.obj)
    /\ pc' = IF drops'[self.obj] > 1 THEN "ub" ELSE "end"
    /\ call' = [call EXCEPT !.via = "drop"]
    /\ ref' = "none"
    /\ observed' = NotObserved
    /\ UNCHANGED <<self, moved, nextObj, ret, panic_immediate_abort>>

\* ---------------------------------------------------------------------------
\* insert_left / insert_right
\* ---------------------------------------------------------------------------

insert_left ==
    /\ pc = "idle"
    /\ nextObj <= MaxObj
    /\ \E value \in Vals :
        /\ self' = Left(nextObj, value)
        /\ call' = [NoCall EXCEPT !.op = "insert_left", !.pre = self, !.arg = value]
    /\ drops' = Dropped(self.obj)
    /\ nextObj' = nextObj + 1
    /\ moved' = FALSE
    /\ ref' = as_left_unchecked_mut(self')
    /\ pc' = IF ref' = "UB" THEN "ub" ELSE After(FALSE, drops')
    /\ observed' = NotObserved
    /\ UNCHANGED <<ret, panic_immediate_abort>>

insert_right ==
    /\ pc = "idle"
    /\ nextObj <= MaxObj
    /\ \E value \in Vals :
        /\ self' = Right(nextObj, value)
        /\ call' = [NoCall EXCEPT !.op = "insert_right", !.pre = self, !.arg = value]
    /\ drops' = Dropped(self.obj)
    /\ nextObj' = nextObj + 1
    /\ moved' = FALSE
    /\ ref' = as_right_unchecked_mut(self')
    /\ pc' = IF ref' = "UB" THEN "ub" ELSE After(FALSE, drops')
    /\ observed' = NotObserved
    /\ UNCHANGED <<ret, panic_immediate_abort>>

\* ---------------------------------------------------------------------------
\* left_or_insert / right_or_insert
\* ---------------------------------------------------------------------------

\* left_or_insert that inserts whatever tag is live.
left_or_insert_always ==
    /\ pc = "idle"
    /\ nextObj <= MaxObj
    /\ nextObj' = nextObj + 1
    /\ \E value \in Vals :
        /\ call' = [NoCall EXCEPT !.op = "left_or_insert", !.pre = self, !.arg = value]
        /\ self' = Left(nextObj, value)
    /\ drops' = Dropped(self.obj)
    /\ moved' = FALSE
    /\ ref' = as_left_unchecked_mut(self')
    /\ pc' = IF ref' = "UB" THEN "ub" ELSE After(FALSE, drops')
    /\ observed' = NotObserved
    /\ UNCHANGED <<ret, panic_immediate_abort>>

\* `value` is an L of the caller (object nextObj), moved into the call.
left_or_insert ==
    /\ pc = "idle"
    /\ nextObj <= MaxObj
    /\ nextObj' = nextObj + 1
    /\ \E value \in Vals :
        /\ call' = [NoCall EXCEPT !.op = "left_or_insert", !.pre = self, !.arg = value]
        /\ CASE self.tag = "Left" ->
                \* Left(x) => x; the unused `value` is dropped.
                /\ drops' = Dropped(nextObj)
                /\ ref' = "Left"
                /\ pc' = After(FALSE, drops')
                /\ UNCHANGED <<self, moved>>
             [] self.tag = "Right" ->
                \* Right(_) => self.insert_left(value)
                /\ self' = Left(nextObj, value)
                /\ drops' = Dropped(self.obj)
                /\ moved' = FALSE
                /\ ref' = as_left_unchecked_mut(self')
                /\ pc' = IF ref' = "UB" THEN "ub" ELSE After(FALSE, drops')
    /\ observed' = NotObserved
    /\ UNCHANGED <<ret, panic_immediate_abort>>

right_or_insert ==
    /\ pc = "idle"
    /\ nextObj <= MaxObj
    /\ nextObj' = nextObj + 1
    /\ \E value \in Vals :
        /\ call' = [NoCall EXCEPT !.op = "right_or_insert", !.pre = self, !.arg = value]
        /\ CASE self.tag = "Left" ->
                \* Left(_) => self.insert_right(value)
                /\ self' = Right(nextObj, value)
                /\ drops' = Dropped(self.obj)
                /\ moved' = FALSE
                /\ ref' = as_right_unchecked_mut(self')
                /\ pc' = IF ref' = "UB" THEN "ub" ELSE After(FALSE, drops')
             [] self.tag = "Right" ->
                \* Right(x) => x; the unused `value` is dropped.
                /\ drops' = Dropped(nextObj)
                /\ ref' = "Right"
                /\ pc' = After(FALSE, drops')
                /\ UNCHANGED <<self, moved>>
    /\ observed' = NotObserved
    /\ UNCHANGED <<ret, panic_immediate_abort>>

\* ---------------------------------------------------------------------------
\* The read-then-overwrite combinators.  Each is two steps: the match and the
\* ptr::read, which hands the payload to f, and then either the ptr::write of
\* what f returned or the unwinding of a panic raised in f.
\* ---------------------------------------------------------------------------

\* What f hands back: its own argument again (keep), or a new object of value r,
\* in which case the argument it owned has been dropped when it returns.
FResult(keep, r) ==
    IF keep THEN [obj |-> call.farg.obj, v |-> call.farg.v]
            ELSE [obj |-> nextObj, v |-> r]

FReturns(keep) ==
    /\ ~keep => nextObj <= MaxObj
    /\ nextObj' = IF keep THEN nextObj ELSE nextObj + 1
    /\ drops' = IF keep THEN drops ELSE Dropped(call.farg.obj)

\* let x = ptr::read(x); f(x) is entered.
ReadAndCall(op) ==
    /\ moved' = TRUE
    /\ pc' = "in_f"
    /\ call' = [NoCall EXCEPT !.op = op, !.pre = self, !.fn = "f", !.fcalls = 1,
                              !.farg = [tag |-> "Bare", obj |-> self.obj, v |-> self.v]]
    /\ ref' = "none"
    /\ UNCHANGED <<self, drops, nextObj>>

left_or_insert_with ==
    /\ pc = "idle"
    /\ CASE self.tag = "Left" ->
            \* Left(x) => x
            /\ call' = [NoCall EXCEPT !.op = "left_or_insert_with", !.pre = self]
            /\ ref' = "Left"
            /\ UNCHANGED <<self, moved, pc, drops, nextObj>>
         [] self.tag = "Right" -> ReadAndCall("left_or_insert_with")
    /\ observed' = NotObserved
    /\ UNCHANGED <<ret, panic_immediate_abort>>

\* ptr::write(self, Left(f(x))); self.as_left_unchecked_mut()
left_or_insert_with_write ==
    /\ pc = "in_f"
    /\ call.op = "left_or_insert_with"
    /\ \E keep \in BOOLEAN, r \in Vals :
        /\ FReturns(keep)
        /\ self' = Left(FResult(keep, r).obj, FResult(keep, r).v)
        /\ call' = [call EXCEPT !.fret = [tag |-> "Bare", obj |-> FResult(keep, r).obj,
                                          v |-> FResult(keep, r).v]]
    /\ moved' = FALSE
    /\ ref' = as_left_unchecked_mut(self')
    /\ pc' = IF ref' = "UB" THEN "ub" ELSE After(FALSE, drops')
    /\ observed' = NotObserved
    /\ UNCHANGED <<ret, panic_immediate_abort>>

right_or_insert_with ==
    /\ pc = "idle"
    /\ CASE self.tag = "Left" -> ReadAndCall("right_or_insert_with")
         [] self.tag = "Right" ->
            \* Right(x) => x
            /\ call' = [NoCall EXCEPT !.op = "right_or_insert_with", !.pre = self]
            /\ ref' = "Right"
            /\ UNCHANGED <<self, moved, pc, drops, nextObj>>
    /\ observed' = NotObserved
    /\ UNCHANGED <<ret, panic_immediate_abort>>

\* ptr::write(self, Right(f(x))); self.as_right_unchecked_mut()
right_or_insert_with_write ==
    /\ pc = "in_f"
    /\ call.op = "right_or_insert_with"
    /\ \E keep \in BOOLEAN, r \in Vals :
        /\ FReturns(keep)
        /\ self' = Right(FResult(keep, r).obj, FResult(keep, r).v)
        /\ call' = [call EXCEPT !.fret = [tag |-> "Bare", obj |-> FResult(keep, r).obj,
                                          v |-> FResult(keep, r).v]]
    /\ moved' = FALSE
    /\ ref' = as_right_unchecked_mut(self')
    /\ pc' = IF ref' = "UB" THEN "ub" ELSE After(FALSE, drops')
    /\ observed' = NotObserved
    /\ UNCHANGED <<ret, panic_immediate_abort>>

left_and_modify ==
    /\ pc = "idle"
    /\ CASE self.tag = "Left" -> ReadAndCall("left_and_modify")
         [] self.tag = "Right" ->
            \* nothing to do; `self` is returned
            /\ call' = [NoCall EXCEPT !.op = "left_and_modify", !.pre = self]
            /\ ref' = "Self"
            /\ UNCHANGED <<self, moved, pc, drops, nextObj>>
    /\ observed' = NotObserved
    /\ UNCHANGED <<ret, panic_immediate_abort>>

\* left_and_modify that writes Left(..) whatever f returned.
left_and_modify_write_left ==
    /\ pc = "in_f"
    /\ call.op = "left_and_modify"
    /\ \E keep \in BOOLEAN, t \in Tags, r \in Vals :
        LET res == [tag |-> t, obj |-> FResult(keep, r).obj, v |-> FResult(keep, r).v] IN
        /\ FReturns(keep)
        /\ self' = Left(res.obj, res.v)
        /\ call' = [call EXCEPT !.fret = res]
    /\ moved' = FALSE
    /\ ref' = "Self"
    /\ pc' = After(FALSE, drops')
    /\ observed' = NotObserved
    /\ UNCHANGED <<ret, panic_immediate_abort>>

\* ptr::write(self, f(x)); self
left_and_modify_write ==
    /\ pc = "in_f"
    /\ call.op = "left_and_modify"
    /\ \E keep \in BOOLEAN, t \in Tags, r \in Vals :
        LET res == [tag |-> t, obj |-> FResult(keep, r).obj, v |-> FResult(keep, r).v] IN
        /\ FReturns(keep)
        /\ self' = res
        /\ call' = [call EXCEPT !.fret = res]
    /\ moved' = FALSE
    /\ ref' = "Self"
    /\ pc' = After(FALSE, drops')
    /\ observed' = NotObserved
    /\ UNCHANGED <<ret, panic_immediate_abort>>

right_and_modify ==
    /\ pc = "idle"
    /\ CASE self.tag = "Left" ->
            \* nothing to do; `self` is returned
            /\ call' = [NoCall EXCEPT !.op = "right_and_modify", !.pre = self]
            /\ ref' = "Self"
            /\ UNCHANGED <<self, moved, pc, drops, nextObj>>
         [] self.tag = "Right" -> ReadAndCall("right_and_modify")
    /\ observed' = NotObserved
    /\ UNCHANGED <<ret, panic_immediate_abort>>

\* ptr::write(self, f(x)); self
right_and_modify_write ==
    /\ pc = "in_f"
    /\ call.op = "right_and_modify"
    /\ \E keep \in BOOLEAN, t \in Tags, r \in Vals :
        LET res == [tag |-> t, obj |-> FResult(keep, r).obj, v |-> FResult(keep, r).v] IN
        /\ FReturns(keep)
        /\ self' = res
        /\ call' = [call EXCEPT !.fret = res]
    /\ moved' = FALSE
    /\ ref' = "Self"
    /\ pc' = After(FALSE, drops')
    /\ observed' = NotObserved
    /\ UNCHANGED <<ret, panic_immediate_abort>>

\* f panics: the unwinding drops the argument f owns and leaves the combinator
\* before its ptr::write; the container still holds the bits that were read.
f_panic ==
    /\ pc = "in_f"
    /\ drops' = Dropped(call.farg.obj)
    /\ pc' = IF drops'[call.farg.obj] > 1 THEN "ub" ELSE "unwinding"
    /\ call' = [call EXCEPT !.via = "panic"]
    /\ observed' = NotObserved
    /\ UNCHANGED <<self, moved, ref, nextObj, ret, panic_immediate_abort>>

\* The panic is caught below the owner of the container (catch_unwind, or the
\* owner is another thread's or a static's): the container stays in use.
catch_unwind ==
    /\ pc = "unwinding"
    /\ pc' = "idle"
    /\ observed' = NotObserved
    /\ UNCHANGED <<self, moved, call, ref, drops, nextObj, ret, panic_immediate_abort>>

\* ---------------------------------------------------------------------------
\* Readers
\* ---------------------------------------------------------------------------

\* is_left(), is_right() and as_ref() called on the container.
observe ==
    /\ pc = "idle"
    /\ observed' = [is_left |-> is_left(self), is_right |-> is_right(self),
                    view |-> as_ref(self), moved |-> moved]
    /\ observed' # observed
    /\ UNCHANGED <<self, moved, pc, call, ref, drops, nextObj, ret, panic_immediate_abort>>

\* ---------------------------------------------------------------------------
\* Other methods that take the container by mutable reference
\* ---------------------------------------------------------------------------

as_mut ==
    /\ pc = "idle"
    /\ ref' = (CASE self.tag = "Left" -> "Left" [] self.tag = "Right" -> "Right")
    /\ call' = [NoCall EXCEPT !.op = "as_mut", !.pre = self]
    /\ call' # call
    /\ observed' = NotObserved
    /\ UNCHANGED <<self, moved, pc, drops, nextObj, ret, panic_immediate_abort>>

as_deref_mut ==
    /\ pc = "idle"
    /\ ref' = (CASE self.tag = "Left" -> "Left" [] self.tag = "Right" -> "Right")
    /\ call' = [NoCall EXCEPT !.op = "as_deref_mut", !.pre = self]
    /\ call' # call
    /\ observed' = NotObserved
    /\ UNCHANGED <<self, moved, pc, drops, nextObj, ret, panic_immediate_abort>>

\* A write through the &mut L / &mut R a method returned: it lands in the
\* payload slot of the variant the reference was taken from.
write_ref ==
    /\ pc = "idle"
    /\ ref \in Tags
    /\ \E x \in Vals :
        /\ self' = IF ref = self.tag THEN [self EXCEPT !.v = x] ELSE self
        /\ call' = [NoCall EXCEPT !.op = "write_ref", !.pre = self, !.arg = x,
                                  !.via = IF call.op = "write_ref" THEN call.via ELSE call.op]
    /\ pc' = IF ref = self.tag THEN After(TRUE, drops) ELSE "ub"
    /\ observed' = NotObserved
    /\ UNCHANGED <<moved, ref, drops, nextObj, ret, panic_immediate_abort>>

\* A forwarding method that stores the payload under the other tag.
ForwardMut_retag(op) ==
    /\ pc = "idle"
    /\ \E x \in Vals :
        /\ self' = (CASE self.tag = "Left" -> Right(self.obj, x)
                      [] self.tag = "Right" -> Left(self.obj, x))
        /\ call' = [NoCall EXCEPT !.op = op, !.pre = self, !.arg = x]
    /\ pc' = After(TRUE, drops)
    /\ ref' = "none"
    /\ observed' = NotObserved
    /\ UNCHANGED <<moved, drops, nextObj, ret, panic_immediate_abort>>

\* match self { Left(x) => x.op(..), Right(x) => x.op(..) }: the payload's own
\* method runs on the payload in place and may leave it with any value.
ForwardMut(op) ==
    /\ pc = "idle"
    /\ \E x \in Vals :
        /\ self' = (CASE self.tag = "Left" -> Left(self.obj, x)
                      [] self.tag = "Right" -> Right(self.obj, x))
        /\ call' = [NoCall EXCEPT !.op = op, !.pre = self, !.arg = x]
    /\ pc' = After(TRUE, drops)
    /\ ref' = "none"
    /\ observed' = NotObserved
    /\ UNCHANGED <<moved, drops, nextObj, ret, panic_immediate_abort>>

add_assign == ForwardMut("add_assign")

extend == ForwardMut("extend")

hasher_write == ForwardMut("hasher_write")

io_write == ForwardMut("io_write")

write_str == ForwardMut("write_str")

next == ForwardMut("next")

poll == ForwardMut("poll")

\* clone_from(&mut self, source): source is another container, [tag, v].
clone_from ==
    /\ pc = "idle"
    /\ \E t \in Tags, y \in Vals :
        /\ call' = [NoCall EXCEPT !.op = "clone_from", !.pre = self,
                                  !.src = [tag |-> t, obj |-> 0, v |-> y]]
        /\ CASE self.tag = "Left" /\ t = "Left" ->
                \* (Left(x), Left(y)) => x.clone_from(y)
                /\ self' = Left(self.obj, y)
                /\ pc' = After(TRUE, drops)
                /\ UNCHANGED <<moved, drops, nextObj>>
             [] self.tag = "Right" /\ t = "Right" ->
                \* (Right(x), Right(y)) => x.clone_from(y)
                /\ self' = Right(self.obj, y)
                /\ pc' = After(TRUE, drops)
                /\ UNCHANGED <<moved, drops, nextObj>>
             [] OTHER ->
                \* (x, y) => *x = y.clone()
                /\ nextObj <= MaxObj
                /\ self' = [tag |-> t, obj |-> nextObj, v |-> y]
                /\ nextObj' = nextObj + 1
                /\ drops' = Dropped(self.obj)
                /\ moved' = FALSE
                /\ pc' = After(FALSE, drops')
    /\ ref' = "none"
    /\ observed' = NotObserved
    /\ UNCHANGED <<ret, panic_immediate_abort>>

\* ---------------------------------------------------------------------------
\* Methods that take the container by value
\* ---------------------------------------------------------------------------

\* let x = x.flip(): the payload moves into the result.
do_flip ==
    /\ pc = "idle"
    /\ self' = flip(self)
    /\ call' = [NoCall EXCEPT !.op = "flip", !.pre = self,
                              !.prev = IF call.op = "flip" THEN call.pre ELSE None]
    /\ ref' = "none"
    /\ observed' = NotObserved
    /\ UNCHANGED <<moved, pc, drops, nextObj, ret, panic_immediate_abort>>

\* An FnOnce closure named fn: it is called at most once, so it is given by the
\* result it returns; the value it is applied to records the call it received.
Closure(fn, res) ==
    [x \in Vals |-> [fn |-> fn, arg |-> x, ctx |-> NoVal, res |-> res]]

ClosureWith(fn, res) ==
    [p \in Vals \X Vals |-> [fn |-> fn, arg |-> p[1], ctx |-> p[2], res |-> res]]

\* The bookkeeping of a by-value call whose closure call was `out`.
Folded(op, ctx, out) ==
    /\ ret' = [kind |-> "value", e |-> [tag |-> "Bare", obj |-> 0, v |-> out.res], msg |-> << >>]
    /\ call' = [NoCall EXCEPT !.op = op, !.pre = self, !.arg = ctx, !.fn = out.fn, !.fcalls = 1,
                              !.farg = [tag |-> "Bare", obj |-> self.obj, v |-> out.arg],
                              !.fctx = out.ctx,
                              !.fret = [tag |-> "Bare", obj |-> 0, v |-> out.res]]
    /\ pc' = IF moved THEN "ub" ELSE "consumed"
    /\ ref' = "none"
    /\ observed' = NotObserved
    /\ UNCHANGED <<self, moved, drops, nextObj, panic_immediate_abort>>

do_fold ==
    /\ pc = "idle"
    /\ \E lres \in Vals, rres \in Vals :
        Folded("fold", NoVal, fold(self, Closure("l", lres), Closure("r", rres)))

do_fold_with ==
    /\ pc = "idle"
    /\ \E ctx \in Vals, lres \in Vals, rres \in Vals :
        Folded("fold_with", ctx, fold_with(self, ctx, ClosureWith("l", lres), ClosureWith("r", rres)))

\* The bookkeeping of an expect / unwrap call with outcome `out`: the payload is
\* handed to the caller, or the panic unwinds the call, which drops `self`.
Unwrapped(op, message, out) ==
    /\ ret' = out
    /\ call' = [NoCall EXCEPT !.op = op, !.pre = self, !.msg = message]
    /\ drops' = IF out.kind = "panic" THEN Dropped(self.obj) ELSE drops
    /\ pc' = IF moved \/ drops'[self.obj] > 1 THEN "ub"
             ELSE IF out.kind = "panic" THEN "end" ELSE "consumed"
    /\ ref' = "none"
    /\ observed' = NotObserved
    /\ UNCHANGED <<self, moved, nextObj, panic_immediate_abort>>

do_left_expect ==
    /\ pc = "idle"
    /\ \E message \in Msgs :
        Unwrapped("left_expect", message, left_expect(panic_immediate_abort, self, message))

do_right_expect ==
    /\ pc = "idle"
    /\ \E message \in Msgs :
        Unwrapped("right_expect", message, right_expect(panic_immediate_abort, self, message))

do_left_unwrap ==
    /\ pc = "idle"
    /\ Unwrapped("left_unwrap", << >>, left_unwrap(panic_immediate_abort, self))

do_right_unwrap ==
    /\ pc = "idle"
    /\ Unwrapped("right_unwrap", << >>, right_unwrap(panic_immediate_abort, self))

Next ==
    \/ construct
    \/ left_or_insert
    \/ right_or_insert
    \/ left_or_insert_with
    \/ left_or_insert_with_write
    \/ right_or_insert_with
    \/ right_or_insert_with_write
    \/ left_and_modify
    \/ left_and_modify_write
    \/ right_and_modify
    \/ right_and_modify_write
    \/ f_panic
    \/ catch_unwind
    \/ observe
    \/ as_mut
    \/ as_deref_mut
    \/ write_ref
    \/ add_assign
    \/ extend
    \/ hasher_write
    \/ io_write
    \/ write_str
    \/ next
    \/ poll
    \/ clone_from
    \/ do_flip
    \/ do_fold
    \/ do_fold_with
    \/ do_left_expect
    \/ do_right_expect
    \/ do_left_unwrap
    \/ do_right_unwrap
    \/ drop_in_place
    \/ insert_left
    \/ insert_right

Spec == Init /\ [][Next]_vars

\* ---------------------------------------------------------------------------
\* Values: the by-value methods, accessors and conversions, applied to valid
\* values.  Here `self` is [ty, val]: a value and its static type; `ret` is the
\* result of the last call and `observed` the results a caller has collected.
\* ---------------------------------------------------------------------------

\* Option<T>
Some(x) == [opt |-> "Some", val |-> x]

Option_None == [opt |-> "None"]

\* The result of a call, as the caller receives it.
Value(x) == [kind |-> "value", e |-> x, msg |-> << >>]

\* Either<L, R> with plain payloads.
Eithers == {[tag |-> t, obj |-> 1, v |-> x] : t \in Tags, x \in Vals}

\* left that answers Some on both variants.
left_of_any(e) ==
    CASE e.tag = "Left" -> Some(e.v)
      [] e.tag = "Right" -> Some(e.v)

left(e) ==
    CASE e.tag = "Left" -> Some(e.v)
      [] e.tag = "Right" -> Option_None

right(e) ==
    CASE e.tag = "Left" -> Option_None
      [] e.tag = "Right" -> Some(e.v)

as_left(e) ==
    CASE e.tag = "Left" -> Some(e.v)
      [] e.tag = "Right" -> Option_None

as_right(e) ==
    CASE e.tag = "Left" -> Option_None
      [] e.tag = "Right" -> Some(e.v)

as_left_mut(e) ==
    CASE e.tag = "Left" -> Some(e.v)
      [] e.tag = "Right" -> Option_None

as_right_mut(e) ==
    CASE e.tag = "Left" -> Option_None
      [] e.tag = "Right" -> Some(e.v)

\* A method that takes self by value: the caller is left with the result.
ByValue(op, out) ==
    /\ pc = "idle"
    /\ ret' = Value(out)
    /\ call' = [NoCall EXCEPT !.op = op, !.pre = self.val]
    /\ pc' = "consumed"
    /\ UNCHANGED <<self, moved, ref, drops, nextObj, observed, panic_immediate_abort>>

\* A method that takes &self or &mut self and does not write through it.
ByRef(op, out) ==
    /\ pc = "idle"
    /\ ret' = Value(out)
    /\ call' = [NoCall EXCEPT !.op = op, !.pre = self.val]
    /\ UNCHANGED <<self, moved, pc, ref, drops, nextObj, observed, panic_immediate_abort>>

do_left == self.ty = "Either" /\ ByValue("left", left(self.val))

do_right == self.ty = "Either" /\ ByValue("right", right(self.val))

do_as_left == self.ty = "Either" /\ ByRef("as_left", as_left(self.val))

do_as_right == self.ty = "Either" /\ ByRef("as_right", as_right(self.val))

do_as_left_mut == self.ty = "Either" /\ ByRef("as_left_mut", as_left_mut(self.val))

do_as_right_mut == self.ty = "Either" /\ ByRef("as_right_mut", as_right_mut(self.val))

\* derive(PartialEq, Eq, PartialOrd, Ord, Hash) on the enum: the discriminant of
\* a variant is its position in the declaration.
discriminant(e) ==
    CASE e.tag = "Left" -> 0
      [] e.tag = "Right" -> 1

\* The payload type's own Ord (here the order of the integers).
payload_cmp(x, y) ==
    IF x < y THEN "Less" ELSE IF x = y THEN "Equal" ELSE "Greater"

\* The derived PartialEq: the same variant and equal payloads.
eq(a, b) == discriminant(a) = discriminant(b) /\ a.v = b.v

\* An ordering that looks at the payloads before the tags.
cmp_payload_first(a, b) ==
    IF payload_cmp(a.v, b.v) # "Equal" THEN payload_cmp(a.v, b.v)
    ELSE payload_cmp(discriminant(a), discriminant(b))

\* The derived Ord / PartialOrd: the discriminants first, then the payloads.
cmp(a, b) ==
    IF discriminant(a) # discriminant(b)
    THEN payload_cmp(discriminant(a), discriminant(b))
    ELSE payload_cmp(a.v, b.v)

\* The derived Hash: what is fed to the Hasher, the discriminant and then the
\* payload's own hash input.
hash(e) == <<discriminant(e), <<"i32", e.v>>>>

\* a == b, a.cmp(&b), a < b and the hashes of a and b, for another value b.
do_cmp ==
    /\ self.ty = "Either"
    /\ \E t \in Tags, y \in Vals :
        LET other == [tag |-> t, obj |-> 2, v |-> y]
        IN ByRef("cmp", [other |-> other,
                         eq |-> eq(self.val, other),
                         ord |-> cmp(self.val, other),
                         lt |-> cmp(self.val, other) = "Less",
                         hash |-> hash(self.val),
                         hash_other |-> hash(other)])

\* Result<T, E>
Ok(x) == [res |-> "Ok", ok |-> x]

Err(x) == [res |-> "Err", err |-> x]

\* The data formats: one writes the name of a variant, one its index.
Formats == {"self_describing", "compact"}

\* The payload types' own Serialize and Deserialize.
payload_serialize(x) == <<"i32", x>>

payload_deserialize(data) ==
    IF data[1] = "i32" THEN Ok(data[2]) ELSE Err("invalid type")

\* What a Serializer of the format writes for
\* serialize_newtype_variant(name, variant_index, variant, value).
serialize_newtype_variant(format, name, variant_index, variant, value) ==
    IF format = "self_describing"
    THEN Ok([variant |-> variant, value |-> payload_serialize(value)])
    ELSE Ok([variant_index |-> variant_index, value |-> payload_serialize(value)])

\* A Serialize that writes every value as the first variant.
serialize_as_left(format, e) ==
    CASE e.tag = "Left" -> serialize_newtype_variant(format, "Either", 0, "Left", e.v)
      [] e.tag = "Right" -> serialize_newtype_variant(format, "Either", 0, "Left", e.v)

\* derive(serde::Serialize): an enum of two newtype variants.
serialize(format, e) ==
    CASE e.tag = "Left" -> serialize_newtype_variant(format, "Either", 0, "Left", e.v)
      [] e.tag = "Right" -> serialize_newtype_variant(format, "Either", 1, "Right", e.v)

\* derive(serde::Deserialize): the variant is identified by its name or by its
\* index, and its payload is then read as a newtype variant; o is the object
\* the payload is built in.
deserialize(format, data, o) ==
    LET variant ==
            IF format = "self_describing"
            THEN (CASE data.variant = "Left" -> Ok("Left")
                    [] data.variant = "Right" -> Ok("Right")
                    [] OTHER -> Err("unknown variant"))
            ELSE (CASE data.variant_index = 0 -> Ok("Left")
                    [] data.variant_index = 1 -> Ok("Right")
                    [] OTHER -> Err("invalid value"))
        value == payload_deserialize(data.value)
    IN IF variant.res = "Err" THEN variant
       ELSE IF value.res = "Err" THEN value
       ELSE IF variant.ok = "Left" THEN Ok(Left(o, value.ok))
       ELSE Ok(Right(o, value.ok))

\* x.serialize(serializer) into a format.
do_serialize ==
    /\ self.ty = "Either"
    /\ \E format \in Formats :
        ByRef("serialize", [format |-> format, data |-> serialize(format, self.val)])

\* Either::deserialize(deserializer) from what the last call wrote.
do_deserialize ==
    /\ self.ty = "Either"
    /\ call.op = "serialize"
    /\ ret.e.data.res = "Ok"
    /\ ByRef("deserialize", deserialize(ret.e.format, ret.e.data.ok, 2))

\* Option<T> and Result<T, E> payloads.
Options == {Some(x) : x \in Vals} \cup {Option_None}

Results == {Ok(x) : x \in Vals} \cup {Err(x) : x \in Vals}

\* Either<Option<L>, Option<R>> and Either<Result<L, _>, Result<R, _>>
EitherOptions == {[tag |-> t, obj |-> 1, v |-> x] : t \in Tags, x \in Options}

EitherResults == {[tag |-> t, obj |-> 1, v |-> x] : t \in Tags, x \in Results}

\* Result<Either<T1, T2>, Either<E1, E2>>
ResultEithers ==
    {Ok([tag |-> t, obj |-> 1, v |-> x]) : t \in Tags, x \in Vals}
    \cup {Err([tag |-> t, obj |-> 1, v |-> x]) : t \in Tags, x \in Vals}

\* x.map(Left) and x.map(Right) on an Option and on a Result: the payload of
\* Some / Ok, object o, is wrapped in the variant.
Option_map(x, variant, o) ==
    IF x.opt = "Some" THEN Some([tag |-> variant, obj |-> o, v |-> x.val]) ELSE Option_None

Result_map(x, variant, o) ==
    IF x.res = "Ok" THEN Ok([tag |-> variant, obj |-> o, v |-> x.ok]) ELSE Err(x.err)

\* A transpose that wraps every Some in Left.
option_transpose_into_left(e) ==
    CASE e.tag = "Left" -> Option_map(e.v, "Left", e.obj)
      [] e.tag = "Right" -> Option_map(e.v, "Left", e.obj)

\* Either<Option<L>, Option<R>>::transpose
option_transpose(e) ==
    CASE e.tag = "Left" -> Option_map(e.v, "Left", e.obj)
      [] e.tag = "Right" -> Option_map(e.v, "Right", e.obj)

\* From<Either<Option<L>, Option<R>>> for Option<Either<L, R>>
from_either_option(value) ==
    CASE value.tag = "Left" /\ value.v.opt = "Some" -> Some(Left(value.obj, value.v.val))
      [] value.tag = "Right" /\ value.v.opt = "Some" -> Some(Right(value.obj, value.v.val))
      [] OTHER -> Option_None

\* Either<Result<L, E>, Result<R, E>>::transpose
result_transpose(e) ==
    CASE e.tag = "Left" -> Result_map(e.v, "Left", e.obj)
      [] e.tag = "Right" -> Result_map(e.v, "Right", e.obj)

\* The conversion with its Ok arms joined as its Err arms are.
from_either_result_joined(value) ==
    CASE value.v.res = "Ok" -> Ok(Left(value.obj, value.v.ok))
      [] OTHER -> Err(value.v.err)

\* From<Either<Result<L, E>, Result<R, E>>> for Result<Either<L, R>, E>
from_either_result(value) ==
    CASE value.tag = "Left" /\ value.v.res = "Ok" -> Ok(Left(value.obj, value.v.ok))
      [] value.tag = "Right" /\ value.v.res = "Ok" -> Ok(Right(value.obj, value.v.ok))
      [] OTHER -> Err(value.v.err)

\* From<Either<Result<T1, E1>, Result<T2, E2>>>
\*     for Result<Either<T1, T2>, Either<E1, E2>>
from_either_of_results(value) ==
    CASE value.tag = "Left" /\ value.v.res = "Ok" -> Ok(Left(value.obj, value.v.ok))
      [] value.tag = "Left" /\ value.v.res = "Err" -> Err(Left(value.obj, value.v.err))
      [] value.tag = "Right" /\ value.v.res = "Ok" -> Ok(Right(value.obj, value.v.ok))
      [] value.tag = "Right" /\ value.v.res = "Err" -> Err(Right(value.obj, value.v.err))

\* The conversion back with the side of an error lost.
from_result_of_eithers_err_left(value) ==
    CASE value.res = "Ok" /\ value.ok.tag = "Left" -> Left(value.ok.obj, Ok(value.ok.v))
      [] value.res = "Ok" /\ value.ok.tag = "Right" -> Right(value.ok.obj, Ok(value.ok.v))
      [] value.res = "Err" /\ value.err.tag = "Left" -> Left(value.err.obj, Err(value.err.v))
      [] value.res = "Err" /\ value.err.tag = "Right" -> Left(value.err.obj, Err(value.err.v))

\* From<Result<Either<T1, T2>, Either<E1, E2>>>
\*     for Either<Result<T1, E1>, Result<T2, E2>>
from_result_of_eithers(value) ==
    CASE value.res = "Ok" /\ value.ok.tag = "Left" -> Left(value.ok.obj, Ok(value.ok.v))
      [] value.res = "Ok" /\ value.ok.tag = "Right" -> Right(value.ok.obj, Ok(value.ok.v))
      [] value.res = "Err" /\ value.err.tag = "Left" -> Left(value.err.obj, Err(value.err.v))
      [] value.res = "Err" /\ value.err.tag = "Right" -> Right(value.err.obj, Err(value.err.v))

\* let x: U = x.into(): the caller goes on with the converted value, of type
\* ty; back is the conversion in the other direction.
Into(op, back, ty, out) ==
    /\ pc = "idle"
    /\ self' = [ty |-> ty, val |-> out]
    /\ ret' = Value(out)
    /\ call' = [NoCall EXCEPT !.op = op, !.pre = self.val,
                              !.prev = IF call.op = back THEN call.pre ELSE None]
    /\ UNCHANGED <<moved, pc, ref, drops, nextObj, observed, panic_immediate_abort>>

do_option_transpose ==
    self.ty = "EitherOption" /\ ByValue("option_transpose", option_transpose(self.val))

do_from_either_option ==
    self.ty = "EitherOption" /\ ByValue("from_either_option", from_either_option(self.val))

do_result_transpose ==
    self.ty = "EitherResult" /\ ByValue("result_transpose", result_transpose(self.val))

do_from_either_result ==
    self.ty = "EitherResult" /\ ByValue("from_either_result", from_either_result(self.val))

do_from_either_of_results ==
    /\ self.ty = "EitherResult"
    /\ Into("from_either_of_results", "from_result_of_eithers", "ResultEither",
            from_either_of_results(self.val))

do_from_result_of_eithers ==
    /\ self.ty = "ResultEither"
    /\ Into("from_result_of_eithers", "from_either_of_results", "EitherResult",
            from_result_of_eithers(self.val))

\* ---------------------------------------------------------------------------
\* IntoIterator for Either<L, R> and Iterator for IntoIter<L, R>
\* ---------------------------------------------------------------------------

\* The iterable payloads: the items they hold and the kind of size hint their
\* iterator gives ("exact" as a Vec's, "upper" as a filter's, "unknown").
HintKinds == {"exact", "upper", "unknown"}

Items == UNION {[1..n -> Vals] : n \in 0..MaxLen}

Iterables == [items : Items, kind : HintKinds]

EitherIterables == {[tag |-> t, obj |-> 1, v |-> x] : t \in Tags, x \in Iterables}

\* The payload's own into_iter, next and size_hint.
payload_into_iter(x) == [items |-> x.items, pos |-> 0, kind |-> x.kind]

payload_next(x) ==
    IF x.pos < Len(x.items)
    THEN [item |-> Some(x.items[x.pos + 1]), it |-> [x EXCEPT !.pos = @ + 1]]
    ELSE [item |-> Option_None, it |-> x]

payload_size_hint(x) ==
    LET n == Len(x.items) - x.pos
    IN CASE x.kind = "exact" -> <<n, Some(n)>>
         [] x.kind = "upper" -> <<0, Some(n)>>
         [] x.kind = "unknown" -> <<0, Option_None>>

\* IntoIter(match self { Left(x) => Left(x.into_iter()), Right(x) => Right(x.into_iter()) })
into_iter(e) ==
    CASE e.tag = "Left" -> Left(e.obj, payload_into_iter(e.v))
      [] e.tag = "Right" -> Right(e.obj, payload_into_iter(e.v))

\* next with a Right arm that drops an item before it yields one.
IntoIter_next_skips(it) ==
    CASE it.tag = "Left" ->
            [item |-> payload_next(it.v).item, it |-> Left(it.obj, payload_next(it.v).it)]
      [] it.tag = "Right" ->
            [item |-> payload_next(payload_next(it.v).it).item,
             it |-> Right(it.obj, payload_next(payload_next(it.v).it).it)]

\* Iterator::next for IntoIter: the item, and the iterator after the call.
IntoIter_next(it) ==
    CASE it.tag = "Left" ->
            [item |-> payload_next(it.v).item, it |-> Left(it.obj, payload_next(it.v).it)]
      [] it.tag = "Right" ->
            [item |-> payload_next(it.v).item, it |-> Right(it.obj, payload_next(it.v).it)]

\* Iterator::size_hint for IntoIter
IntoIter_size_hint(it) ==
    CASE it.tag = "Left" -> payload_size_hint(it.v)
      [] it.tag = "Right" -> payload_size_hint(it.v)

do_into_iter ==
    /\ self.ty = "EitherIterable"
    /\ Into("into_iter", "none", "IntoIter", into_iter(self.val))

\* it.next(): the caller collects the items it is given.
do_next ==
    /\ self.ty = "IntoIter"
    /\ pc = "idle"
    /\ LET out == IntoIter_next(self.val)
       IN /\ self' = [self EXCEPT !.val = out.it]
          /\ ret' = Value(out.item)
          /\ observed' = IF out.item.opt = "Some" THEN Append(observed, out.item.val)
                         ELSE observed
    /\ call' = [NoCall EXCEPT !.op = "next", !.pre = self.val]
    /\ UNCHANGED <<moved, pc, ref, drops, nextObj, panic_immediate_abort>>

do_size_hint ==
    self.ty = "IntoIter" /\ ByRef("size_hint", IntoIter_size_hint(self.val))

\* ---------------------------------------------------------------------------
\* Future for Either<L, R>
\* ---------------------------------------------------------------------------

\* Poll<T>
Ready(x) == [poll |-> "Ready", val |-> x]

Pending == [poll |-> "Pending"]

\* An output as the payload gives it, without a tag.
Bare(x) == [tag |-> "Bare", obj |-> 0, v |-> x]

\* The payload futures of one side: a future is pending `wait` more times and
\* then ready with `out`; it counts the polls it gets.
Futures(side) ==
    [side : {side}, wait : 0..MaxPolls, out : Vals, polls : {0}, done : {FALSE}]

EitherFutures ==
    {[tag |-> "Left", obj |-> 1, v |-> x] : x \in Futures("L")}
    \cup {[tag |-> "Right", obj |-> 1, v |-> x] : x \in Futures("R")}

\* The two sides have the same Output type, or different ones.
FutureTypes == {"Either<Future<T>, Future<T>>", "Either<Future<T>, Future<U>>"}

\* The payload's own poll: its result, and the payload after the call.
payload_poll(x) ==
    IF x.wait = 0
    THEN [res |-> Ready(Bare(x.out)), fut |-> [x EXCEPT !.polls = @ + 1, !.done = TRUE]]
    ELSE [res |-> Pending, fut |-> [x EXCEPT !.polls = @ + 1, !.wait = @ - 1]]

\* Poll::map(Left), Poll::map(Right)
Poll_map(p, variant) ==
    IF p.poll = "Ready" THEN Ready([tag |-> variant, obj |-> 0, v |-> p.val.v]) ELSE Pending

\* Pin<&mut Either<L, R>> to Either<Pin<&mut L>, Pin<&mut R>>
as_pin_mut(e) ==
    CASE e.tag = "Left" -> Left(e.obj, e.v)
      [] e.tag = "Right" -> Right(e.obj, e.v)

\* poll with a Right arm that answers Pending without polling.
Future_poll_right_pending(e) ==
    CASE as_pin_mut(e).tag = "Left" ->
            [res |-> Poll_map(payload_poll(as_pin_mut(e).v).res, "Left"),
             fut |-> Left(e.obj, payload_poll(as_pin_mut(e).v).fut),
             polled |-> <<as_pin_mut(e).v.side>>]
      [] as_pin_mut(e).tag = "Right" ->
            [res |-> Pending, fut |-> e, polled |-> << >>]

\* poll that hands on what the payload's poll returns.
Future_poll_unified(e) ==
    CASE as_pin_mut(e).tag = "Left" ->
            [res |-> payload_poll(as_pin_mut(e).v).res,
             fut |-> Left(e.obj, payload_poll(as_pin_mut(e).v).fut),
             polled |-> <<as_pin_mut(e).v.side>>]
      [] as_pin_mut(e).tag = "Right" ->
            [res |-> payload_poll(as_pin_mut(e).v).res,
             fut |-> Right(e.obj, payload_poll(as_pin_mut(e).v).fut),
             polled |-> <<as_pin_mut(e).v.side>>]

\* Future::poll: the result, the future after the call (the payload is polled
\* in place), and the payloads that were polled.
Future_poll(e) ==
    CASE as_pin_mut(e).tag = "Left" ->
            [res |-> Poll_map(payload_poll(as_pin_mut(e).v).res, "Left"),
             fut |-> Left(e.obj, payload_poll(as_pin_mut(e).v).fut),
             polled |-> <<as_pin_mut(e).v.side>>]
      [] as_pin_mut(e).tag = "Right" ->
            [res |-> Poll_map(payload_poll(as_pin_mut(e).v).res, "Right"),
             fut |-> Right(e.obj, payload_poll(as_pin_mut(e).v).fut),
             polled |-> <<as_pin_mut(e).v.side>>]

\* fut.poll(cx), until the future has completed.
do_poll ==
    /\ self.ty \in FutureTypes
    /\ pc = "idle"
    /\ ~self.val.v.done
    /\ LET out == Future_poll(self.val)
       IN /\ self' = [self EXCEPT !.val = out.fut]
          /\ ret' = Value(out.res)
          /\ observed' = observed \o out.polled
    /\ call' = [NoCall EXCEPT !.op = "poll", !.pre = self.val]
    /\ UNCHANGED <<moved, pc, ref, drops, nextObj, panic_immediate_abort>>

\* ---------------------------------------------------------------------------
\* Serializer and the compound serializers for Either<L, R>
\* ---------------------------------------------------------------------------

\* The Serializer methods that return Result<Self::Ok, Self::Error>.
ValueMethods ==
    {"serialize_bool", "serialize_i8", "serialize_i16", "serialize_i32", "serialize_i64",
     "serialize_i128", "serialize_u8", "serialize_u16", "serialize_u32", "serialize_u64",
     "serialize_u128", "serialize_f32", "serialize_f64", "serialize_char", "serialize_str",
     "serialize_bytes", "serialize_none", "serialize_some", "serialize_unit",
     "serialize_unit_struct", "serialize_unit_variant", "serialize_newtype_struct",
     "serialize_newtype_variant", "collect_seq", "collect_map", "collect_str"}

\* The Serializer methods that return a compound serializer, and its trait.
CompoundMethods ==
    [serialize_seq |-> "SerializeSeq", serialize_tuple |-> "SerializeTuple",
     serialize_tuple_struct |-> "SerializeTupleStruct",
     serialize_tuple_variant |-> "SerializeTupleVariant",
     serialize_map |-> "SerializeMap", serialize_struct |-> "SerializeStruct",
     serialize_struct_variant |-> "SerializeStructVariant"]

\* The element-level methods of each compound serializer.
ElementMethods ==
    [SerializeSeq |-> {"serialize_element"}, SerializeTuple |-> {"serialize_element"},
     SerializeTupleStruct |-> {"serialize_field"},
     SerializeTupleVariant |-> {"serialize_field"},
     SerializeMap |-> {"serialize_key", "serialize_value", "serialize_entry"},
     SerializeStruct |-> {"serialize_field", "skip_field"},
     SerializeStructVariant |-> {"serialize_field", "skip_field"}]

\* ()
Unit == [unit |-> "()"]

\* The payload serializers of the two sides, and the compound serializers
\* their methods give.
EitherSerializers ==
    {[tag |-> "Left", obj |-> 1, v |-> [side |-> "L"]],
     [tag |-> "Right", obj |-> 1, v |-> [side |-> "R"]]}

Compound(side, trait) == [side |-> side, trait |-> trait, elems |-> 0]

\* What a payload's method may return.
ValueOutcomes == {Ok(x) : x \in Vals} \cup {Err(x) : x \in Vals}

CompoundOutcomes(side, trait) == {Ok(Compound(side, trait))} \cup {Err(x) : x \in Vals}

ElementOutcomes == {Ok(Unit)} \cup {Err(x) : x \in Vals}

\* x.method(..) on the payload x, which returns r.
payload_call(x, method, r) ==
    [res |-> r, called |-> <<[by |-> x.side, method |-> method]>>]

\* Result::map_err(Left), Result::map_err(Right)
Result_map_err(r, variant, o) ==
    IF r.res = "Err" THEN Err([tag |-> variant, obj |-> o, v |-> r.err]) ELSE r

\* A forwarding that reports every error as the Left side's.
Serializer_call_err_left(e, method, r) ==
    [res |-> CASE r.res = "Err" -> Err(Left(e.obj, r.err))
               [] e.tag = "Left" -> Ok(Left(e.obj, r.ok))
               [] e.tag = "Right" -> Ok(Right(e.obj, r.ok)),
     called |-> payload_call(e.v, method, r).called]

\* Result::from(match self { Left(x) => Left(x.method(..)),
\*                           Right(x) => Right(x.method(..)) })
Serializer_call(e, method, r) ==
    [res |-> from_either_of_results(
                CASE e.tag = "Left" -> Left(e.obj, payload_call(e.v, method, r).res)
                  [] e.tag = "Right" -> Right(e.obj, payload_call(e.v, method, r).res)),
     called |-> payload_call(e.v, method, r).called]

\* match self { Left(x) => x.method(..).map_err(Left),
\*              Right(x) => x.method(..).map_err(Right) }
Element_call(e, method, r) ==
    [res |-> CASE e.tag = "Left" ->
                    Result_map_err(payload_call(e.v, method, r).res, "Left", e.obj)
               [] e.tag = "Right" ->
                    Result_map_err(payload_call(e.v, method, r).res, "Right", e.obj),
     called |-> payload_call(e.v, method, r).called]

\* The bookkeeping of a serializer call `out` whose payload call returned r.
Serialized(method, r, out) ==
    /\ ret' = Value(out.res)
    /\ call' = [NoCall EXCEPT !.op = method, !.pre = self.val, !.fret = r]
    /\ observed' = observed \o out.called
    /\ UNCHANGED <<moved, ref, drops, nextObj, panic_immediate_abort>>

\* serializer.serialize_bool(v) and the like, collect_seq(iter) and the like.
do_serialize_value ==
    /\ self.ty = "EitherSerializer"
    /\ pc = "idle"
    /\ \E method \in ValueMethods, r \in ValueOutcomes :
        Serialized(method, r, Serializer_call(self.val, method, r))
    /\ pc' = "consumed"
    /\ UNCHANGED self

\* serializer.serialize_seq(len) and the like: on success the caller goes on
\* with the compound serializer.
do_serialize_compound ==
    /\ self.ty = "EitherSerializer"
    /\ pc = "idle"
    /\ \E method \in DOMAIN CompoundMethods :
        \E r \in CompoundOutcomes(self.val.v.side, CompoundMethods[method]) :
            LET out == Serializer_call(self.val, method, r)
            IN /\ Serialized(method, r, out)
               /\ IF out.res.res = "Ok"
                  THEN self' = [ty |-> "EitherCompound", val |-> out.res.ok] /\ pc' = "idle"
                  ELSE self' = self /\ pc' = "consumed"

\* compound.serialize_element(value) and the like.
do_serialize_element ==
    /\ self.ty = "EitherCompound"
    /\ pc = "idle"
    /\ self.val.v.elems < MaxElems
    /\ \E method \in ElementMethods[self.val.v.trait], r \in ElementOutcomes :
        Serialized(method, r, Element_call(self.val, method, r))
    /\ self' = [self EXCEPT !.val.v.elems = @ + 1]
    /\ pc' = pc

\* compound.end()
do_end ==
    /\ self.ty = "EitherCompound"
    /\ pc = "idle"
    /\ \E r \in ValueOutcomes :
        Serialized("end", r, Serializer_call(self.val, "end", r))
    /\ pc' = "consumed"
    /\ UNCHANGED self

\* ---------------------------------------------------------------------------
\* The deserialization roles (de.rs)
\* ---------------------------------------------------------------------------

\* The methods of each role that return a Result.
DeMethods ==
    [Deserializer |->
        {"deserialize_any", "deserialize_bool", "deserialize_i8",
         "deserialize_i16", "deserialize_i32", "deserialize_i64",
         "deserialize_i128", "deserialize_u8", "deserialize_u16",
         "deserialize_u32", "deserialize_u64", "deserialize_u128",
         "deserialize_f32", "deserialize_f64", "deserialize_char",
         "deserialize_str", "deserialize_string", "deserialize_bytes",
         "deserialize_byte_buf", "deserialize_option", "deserialize_unit",
         "deserialize_unit_struct", "deserialize_newtype_struct",
         "deserialize_seq", "deserialize_tuple", "deserialize_tuple_struct",
         "deserialize_map", "deserialize_struct", "deserialize_enum",
         "deserialize_identifier", "deserialize_ignored_any"},
     DeserializeSeed |-> {"DeserializeSeed::deserialize"},
     Visitor |->
        {"visit_bool", "visit_i8", "visit_i16", "visit_i32", "visit_i64",
         "visit_i128", "visit_u8", "visit_u16", "visit_u32", "visit_u64",
         "visit_u128", "visit_f32", "visit_f64", "visit_char", "visit_str",
         "visit_borrowed_str", "visit_string", "visit_bytes",
         "visit_borrowed_bytes", "visit_byte_buf", "visit_none", "visit_some",
         "visit_unit", "visit_newtype_struct", "visit_seq", "visit_map",
         "visit_enum"},
     SeqAccess |-> {"next_element_seed", "next_element"},
     MapAccess |->
        {"next_key_seed", "next_key", "next_value_seed", "next_value",
         "next_entry_seed", "next_entry"},
     EnumAccess |-> {"variant_seed", "variant"},
     VariantAccess |->
        {"unit_variant", "newtype_variant_seed", "newtype_variant", "tuple_variant",
         "struct_variant"}]

\* An Either of two deserializers, seeds, visitors or accessors: the payload
\* is known by its side.
EitherDes ==
    {[tag |-> "Left", obj |-> 1, v |-> [side |-> "L"]],
     [tag |-> "Right", obj |-> 1, v |-> [side |-> "R"]]}

\* What a payload's method may return: a value or an error of a type that is
\* not an Either.
DeOutcomes == {Ok(Bare(x)) : x \in Vals} \cup {Err(Bare(x)) : x \in Vals}

\* What a payload's variant_seed and variant may return: a value with the
\* payload's variant accessor, or an error.
EnumOutcomes(side) ==
    {Ok([value |-> Bare(x), variant |-> [side |-> side]]) : x \in Vals}
        \cup {Err(Bare(x)) : x \in Vals}

\* A Deserializer forwarding that wraps the visitor's value as well.
Deserializer_call_tags_both(e, method, r) ==
    [res |-> CASE e.tag = "Left" ->
                    Result_map(Result_map_err(r, "Left", e.obj), "Left", e.obj)
               [] e.tag = "Right" ->
                    Result_map(Result_map_err(r, "Right", e.obj), "Right", e.obj),
     called |-> payload_call(e.v, method, r).called]

\* match self { Left(x) => x.deserialize_any(visitor).map_err(Left),
\*              Right(x) => x.deserialize_any(visitor).map_err(Right) }
\* and the like, in Deserializer, SeqAccess, MapAccess and VariantAccess: the
\* value is the visitor's or the seed's, the error is the Either's.
Deserializer_call(e, method, r) ==
    [res |-> CASE e.tag = "Left" ->
                    Result_map_err(payload_call(e.v, method, r).res, "Left", e.obj)
               [] e.tag = "Right" ->
                    Result_map_err(payload_call(e.v, method, r).res, "Right", e.obj),
     called |-> payload_call(e.v, method, r).called]

\* match self { Left(x) => x.visit_bool(v).map(Left),
\*              Right(x) => x.visit_bool(v).map(Right) }
\* and the like, in Visitor and DeserializeSeed: the value is the Either's,
\* the error is the caller's.
Visitor_call(e, method, r) ==
    [res |-> CASE e.tag = "Left" ->
                    Result_map(payload_call(e.v, method, r).res, "Left", e.obj)
               [] e.tag = "Right" ->
                    Result_map(payload_call(e.v, method, r).res, "Right", e.obj),
     called |-> payload_call(e.v, method, r).called]

\* The arms of variant_seed and variant:
\*   Ok((value, variant)) => Ok((value, Left(variant))), Err(err) => Err(Left(err))
EnumAccess_arm(r, variant, o) ==
    IF r.res = "Ok"
    THEN Ok([value |-> r.ok.value,
             variant |-> [tag |-> variant, obj |-> o, v |-> r.ok.variant]])
    ELSE Err([tag |-> variant, obj |-> o, v |-> r.err])

\* match self { Left(x) => match x.variant_seed(seed) { .. },
\*              Right(x) => match x.variant_seed(seed) { .. } }
EnumAccess_call(e, method, r) ==
    [res |-> CASE e.tag = "Left" ->
                    EnumAccess_arm(payload_call(e.v, method, r).res, "Left", e.obj)
               [] e.tag = "Right" ->
                    EnumAccess_arm(payload_call(e.v, method, r).res, "Right", e.obj),
     called |-> payload_call(e.v, method, r).called]

\* deserializer.deserialize_any(visitor), variant.unit_variant() and the like.
do_de_call ==
    /\ self.ty \in {"Deserializer", "VariantAccess"}
    /\ pc = "idle"
    /\ \E method \in DeMethods[self.ty], r \in DeOutcomes :
        Serialized(method, r, Deserializer_call(self.val, method, r))
    /\ pc' = "consumed"
    /\ UNCHANGED self

\* visitor.visit_bool(v) and the like, seed.deserialize(deserializer).
do_visit ==
    /\ self.ty \in {"Visitor", "DeserializeSeed"}
    /\ pc = "idle"
    /\ \E method \in DeMethods[self.ty], r \in DeOutcomes :
        Serialized(method, r, Visitor_call(self.val, method, r))
    /\ pc' = "consumed"
    /\ UNCHANGED self

\* seq.next_element(), map.next_key() and the like, through &mut self.
do_de_next ==
    /\ self.ty \in {"SeqAccess", "MapAccess"}
    /\ pc = "idle"
    /\ Len(observed) < MaxElems
    /\ \E method \in DeMethods[self.ty], r \in DeOutcomes :
        Serialized(method, r, Deserializer_call(self.val, method, r))
    /\ UNCHANGED <<self, pc>>

\* access.variant_seed(seed), access.variant(): on success the caller goes on
\* with the variant accessor.
do_enum_access ==
    /\ self.ty = "EnumAccess"
    /\ pc = "idle"
    /\ \E method \in DeMethods[self.ty] :
        \E r \in EnumOutcomes(self.val.v.side) :
            LET out == EnumAccess_call(self.val, method, r)
            IN /\ Serialized(method, r, out)
               /\ IF out.res.res = "Ok"
                  THEN self' = [ty |-> "VariantAccess", val |-> out.res.ok.variant]
                       /\ pc' = "idle"
                  ELSE self' = self /\ pc' = "consumed"

\* ---------------------------------------------------------------------------
\* The error constructors (ser.rs, de.rs)
\* ---------------------------------------------------------------------------

\* L::custom(msg), R::custom(msg) and the like: the error that a payload
\* type's constructor builds from the arguments.
payload_error(side, ctor, args) == [by |-> side, ctor |-> ctor, args |-> args]

\* <Either<L, R> as ser::Error>::custom(msg): Left(L::custom(msg))
ser_Error_custom(msg) == Left(1, payload_error("L", "custom", <<msg>>))

\* The constructors of de::Error and the number of their arguments.
DeErrorCtors ==
    [custom |-> 1, invalid_type |-> 2, invalid_value |-> 2, invalid_length |-> 2,
     unknown_variant |-> 2, unknown_field |-> 2, missing_field |-> 1,
     duplicate_field |-> 1]

\* A constructor that builds the Right side's error.
de_Error_right(ctor, args) == Right(1, payload_error("R", ctor, args))

\* <Either<L, R> as de::Error>::custom(msg): Left(L::custom(msg)),
\* ::invalid_type(unexp, exp): Left(L::invalid_type(unexp, exp)), and the like.
de_Error(ctor, args) == Left(1, payload_error("L", ctor, args))

\* The error types, before any error was built.
ErrorTypes == {[ty |-> "ser::Error", val |-> None], [ty |-> "de::Error", val |-> None]}

\* The bookkeeping of a constructor call.
Constructed(ctor, args, out) ==
    /\ pc = "idle"
    /\ self' = [self EXCEPT !.val = out]
    /\ ret' = Value(out)
    /\ call' = [NoCall EXCEPT !.op = ctor, !.pre = args]
    /\ UNCHANGED <<moved, pc, ref, drops, nextObj, observed, panic_immediate_abort>>

\* S::Error::custom(msg) where S is an Either of two serializers.
do_ser_error ==
    /\ self.ty = "ser::Error"
    /\ \E msg \in Vals : Constructed("custom", <<msg>>, ser_Error_custom(msg))

\* D::Error::custom(msg) and the like where D is an Either of two
\* deserializers.
do_de_error ==
    /\ self.ty = "de::Error"
    /\ \E ctor \in DOMAIN DeErrorCtors :
        \E args \in [1..DeErrorCtors[ctor] -> Vals] :
            Constructed(ctor, args, de_Error(ctor, args))

\* ---------------------------------------------------------------------------
\* Byte streams (io.rs)
\* ---------------------------------------------------------------------------

\* The methods of Seek, Read, BufRead and Write that return an io::Result.
IoMethods ==
    {"seek", "rewind", "stream_position", "seek_relative",
     "read", "read_vectored", "read_to_end", "read_to_string", "read_exact",
     "fill_buf", "read_until", "skip_until", "read_line",
     "write", "flush", "write_vectored", "write_all", "write_fmt"}

\* An Either of two streams: the payload is known by its side.
EitherStreams ==
    {[tag |-> "Left", obj |-> 1, v |-> [side |-> "L"]],
     [tag |-> "Right", obj |-> 1, v |-> [side |-> "R"]]}

\* What a stream's method may return: io::Result<usize> and the like, whose
\* error is an io::Error.
IoOutcomes == {Ok(Bare(x)) : x \in Vals} \cup {Err(Bare(x)) : x \in Vals}

\* A forwarding that turns a failure into a success of zero bytes.
Io_call_swallows(e, method, r) ==
    [res |-> IF r.res = "Err" THEN Ok(Bare(0)) ELSE r,
     called |-> payload_call(e.v, method, r).called]

\* match self { Left(x) => x.read(buf), Right(x) => x.read(buf) } and the like:
\* the io::Result of the payload is the result.
Io_call(e, method, r) ==
    [res |-> CASE e.tag = "Left" -> payload_call(e.v, method, r).res
               [] e.tag = "Right" -> payload_call(e.v, method, r).res,
     called |-> payload_call(e.v, method, r).called]

\* stream.seek(pos), stream.read(buf), stream.write(buf) and the like, through
\* &mut self.
do_io_call ==
    /\ self.ty = "EitherStream"
    /\ pc = "idle"
    /\ Len(observed) < MaxElems
    /\ \E method \in IoMethods, r \in IoOutcomes :
        Serialized(method, r, Io_call(self.val, method, r))
    /\ UNCHANGED <<self, pc>>

\* ---------------------------------------------------------------------------
\* Conversions to one side (lib.rs)
\* ---------------------------------------------------------------------------

\* x.into() and x.try_into() on a payload x of the given side, which returns c.
payload_into(side, x, method, c) ==
    [res |-> c, called |-> <<[by |-> side, method |-> method, arg |-> x]>>]

\* Nothing was called.
NotCalled(res) == [res |-> res, called |-> << >>]

\* An into_left that converts the Left payload as well.
into_left_converts_always(e, c) ==
    CASE e.tag = "Left" -> payload_into("L", e.v, "into", c)
      [] e.tag = "Right" -> payload_into("R", e.v, "into", c)

\* match self { Left(x) => x, Right(x) => x.into() }
into_left(e, c) ==
    CASE e.tag = "Left" -> NotCalled(e.v)
      [] e.tag = "Right" -> payload_into("R", e.v, "into", c)

\* match self { Left(x) => x.into(), Right(x) => x }
into_right(e, c) ==
    CASE e.tag = "Left" -> payload_into("L", e.v, "into", c)
      [] e.tag = "Right" -> NotCalled(e.v)

\* match self { Left(x) => Ok(x), Right(x) => x.try_into() }
try_into_left(e, c) ==
    CASE e.tag = "Left" -> NotCalled(Ok(e.v))
      [] e.tag = "Right" -> payload_into("R", e.v, "try_into", c)

\* match self { Left(x) => x.try_into(), Right(x) => Ok(x) }
try_into_right(e, c) ==
    CASE e.tag = "Left" -> payload_into("L", e.v, "try_into", c)
      [] e.tag = "Right" -> NotCalled(Ok(e.v))

\* The bookkeeping of a by-value call `out` whose payload call, if any,
\* returns c.
Converted(op, c, out) ==
    /\ pc = "idle"
    /\ ret' = Value(out.res)
    /\ call' = [NoCall EXCEPT !.op = op, !.pre = self.val, !.fret = c]
    /\ observed' = out.called
    /\ pc' = "consumed"
    /\ UNCHANGED <<self, moved, ref, drops, nextObj, panic_immediate_abort>>

\* self.into_left(), self.into_right()
do_into ==
    /\ self.ty = "Either"
    /\ \E c \in Vals :
        \/ Converted("into_left", c, into_left(self.val, c))
        \/ Converted("into_right", c, into_right(self.val, c))

\* self.try_into_left(), self.try_into_right()
do_try_into ==
    /\ self.ty = "Either"
    /\ \E c \in ValueOutcomes :
        \/ Converted("try_into_left", c, try_into_left(self.val, c))
        \/ Converted("try_into_right", c, try_into_right(self.val, c))

\* ---------------------------------------------------------------------------
\* Boolean operators and maps (lib.rs)
\* ---------------------------------------------------------------------------

\* The Either values passed as `other` and returned by a closure: another
\* object than self.
Others == {[tag |-> t, obj |-> 2, v |-> x] : t \in Tags, x \in Vals}

\* f(x) on the FnOnce closure f, which returns r.
FnOnce_call(f, x, r) ==
    [res |-> r, called |-> <<[by |-> f, method |-> "call_once", arg |-> x]>>]

\* match self { Left(_) => other, Right(x) => Right(x) }
left_and(e, other) ==
    CASE e.tag = "Left" -> other
      [] e.tag = "Right" -> Right(e.obj, e.v)

\* match self { Left(x) => Left(x), Right(_) => other }
right_and(e, other) ==
    CASE e.tag = "Left" -> Left(e.obj, e.v)
      [] e.tag = "Right" -> other

\* A left_and_then that calls f on the Right payload as well.
left_and_then_calls_always(e, r) ==
    CASE e.tag = "Left" -> FnOnce_call("f", e.v, r)
      [] e.tag = "Right" -> FnOnce_call("f", e.v, r)

\* match self { Left(x) => f(x), Right(x) => Right(x) }
left_and_then(e, r) ==
    CASE e.tag = "Left" -> FnOnce_call("f", e.v, r)
      [] e.tag = "Right" -> NotCalled(Right(e.obj, e.v))

\* match self { Left(x) => Left(x), Right(x) => f(x) }
right_and_then(e, r) ==
    CASE e.tag = "Left" -> NotCalled(Left(e.obj, e.v))
      [] e.tag = "Right" -> FnOnce_call("f", e.v, r)

\* The bookkeeping of self.left_and(other), self.right_and(other).
Anded(op, other, out) ==
    /\ pc = "idle"
    /\ ret' = Value(out)
    /\ call' = [NoCall EXCEPT !.op = op, !.pre = self.val, !.src = other]
    /\ pc' = "consumed"
    /\ UNCHANGED <<self, moved, ref, drops, nextObj, observed, panic_immediate_abort>>

\* self.left_and(other), self.right_and(other)
do_and ==
    /\ self.ty = "Either"
    /\ \E other \in Others :
        \/ Anded("left_and", other, left_and(self.val, other))
        \/ Anded("right_and", other, right_and(self.val, other))

\* self.left_and_then(f), self.right_and_then(f): f, if called, returns r.
do_and_then ==
    /\ self.ty = "Either"
    /\ \E r \in Others :
        \/ Converted("left_and_then", r, left_and_then(self.val, r))
        \/ Converted("right_and_then", r, right_and_then(self.val, r))

\* A map that calls l on either payload.
map_calls_l(e, c) ==
    CASE e.tag = "Left" ->
            [res |-> Left(e.obj, FnOnce_call("l", e.v, c).res),
             called |-> FnOnce_call("l", e.v, c).called]
      [] e.tag = "Right" ->
            [res |-> Right(e.obj, FnOnce_call("l", e.v, c).res),
             called |-> FnOnce_call("l", e.v, c).called]

\* match self { Left(x) => Left(l(x)), Right(y) => Right(r(y)) }
map(e, c) ==
    CASE e.tag = "Left" ->
            [res |-> Left(e.obj, FnOnce_call("l", e.v, c).res),
             called |-> FnOnce_call("l", e.v, c).called]
      [] e.tag = "Right" ->
            [res |-> Right(e.obj, FnOnce_call("r", e.v, c).res),
             called |-> FnOnce_call("r", e.v, c).called]

\* match self { Left(x) => Left(l(x, ctx)), Right(y) => Right(r(y, ctx)) }
map_with(e, ctx, c) ==
    CASE e.tag = "Left" ->
            [res |-> Left(e.obj, FnOnce_call("l", <<e.v, ctx>>, c).res),
             called |-> FnOnce_call("l", <<e.v, ctx>>, c).called]
      [] e.tag = "Right" ->
            [res |-> Right(e.obj, FnOnce_call("r", <<e.v, ctx>>, c).res),
             called |-> FnOnce_call("r", <<e.v, ctx>>, c).called]

\* match self { Left(x) => Left(f(x)), Right(x) => Right(x) }
left_map(e, c) ==
    CASE e.tag = "Left" ->
            [res |-> Left(e.obj, FnOnce_call("f", e.v, c).res),
             called |-> FnOnce_call("f", e.v, c).called]
      [] e.tag = "Right" -> NotCalled(Right(e.obj, e.v))

\* match self { Left(x) => Left(x), Right(x) => Right(f(x)) }
right_map(e, c) ==
    CASE e.tag = "Left" -> NotCalled(Left(e.obj, e.v))
      [] e.tag = "Right" ->
            [res |-> Right(e.obj, FnOnce_call("f", e.v, c).res),
             called |-> FnOnce_call("f", e.v, c).called]

\* self.map(l, r), self.left_map(f), self.right_map(f): the closure that is
\* called returns c.
do_map ==
    /\ self.ty = "Either"
    /\ \E c \in Vals :
        \/ Converted("map", c, map(self.val, c))
        \/ Converted("left_map", c, left_map(self.val, c))
        \/ Converted("right_map", c, right_map(self.val, c))

\* self.map_with(ctx, l, r)
do_map_with ==
    /\ self.ty = "Either"
    /\ pc = "idle"
    /\ \E ctx \in Vals, c \in Vals :
        /\ ret' = Value(map_with(self.val, ctx, c).res)
        /\ call' = [NoCall EXCEPT !.op = "map_with", !.pre = self.val,
                                  !.arg = ctx, !.fret = c]
        /\ observed' = map_with(self.val, ctx, c).called
    /\ pc' = "consumed"
    /\ UNCHANGED <<self, moved, ref, drops, nextObj, panic_immediate_abort>>

\* ---------------------------------------------------------------------------
\* Value-returning operators (ops.rs, hash.rs) and into_inner (lib.rs)
\* ---------------------------------------------------------------------------

UnaryOps == {"neg", "not"}

BinaryOps ==
    {"add", "sub", "mul", "div", "rem", "shl", "shr", "bitand", "bitor", "bitxor"}

\* x.neg(), x.add(rhs), x.build_hasher() and the like: the value that the
\* payload type's operator makes of its operands.
payload_op(side, op, x, rhs) == [by |-> side, op |-> op, lhs |-> x, rhs |-> rhs]

\* match self { Left(x) => Left(x.neg()), Right(x) => Right(x.neg()) }
unary_op(e, op) ==
    CASE e.tag = "Left" -> Left(e.obj, payload_op("L", op, e.v, NoVal))
      [] e.tag = "Right" -> Right(e.obj, payload_op("R", op, e.v, NoVal))

\* A binary operator whose output is always Left.
binary_op_into_left(e, op, rhs) ==
    CASE e.tag = "Left" -> Left(e.obj, payload_op("L", op, e.v, rhs))
      [] e.tag = "Right" -> Left(e.obj, payload_op("R", op, e.v, rhs))

\* match self { Left(x) => Left(x.add(rhs)), Right(x) => Right(x.add(rhs)) }
binary_op(e, op, rhs) ==
    CASE e.tag = "Left" -> Left(e.obj, payload_op("L", op, e.v, rhs))
      [] e.tag = "Right" -> Right(e.obj, payload_op("R", op, e.v, rhs))

\* match self { Left(x) => Left(x.build_hasher()),
\*              Right(x) => Right(x.build_hasher()) }
build_hasher(e) ==
    CASE e.tag = "Left" -> Left(2, payload_op("L", "build_hasher", e.v, NoVal))
      [] e.tag = "Right" -> Right(2, payload_op("R", "build_hasher", e.v, NoVal))

\* -self, !self
do_unary_op ==
    /\ self.ty = "Either"
    /\ \E op \in UnaryOps : ByValue(op, unary_op(self.val, op))

\* self + rhs and the like
do_binary_op ==
    /\ self.ty = "Either"
    /\ pc = "idle"
    /\ \E op \in BinaryOps, rhs \in Vals :
        /\ ret' = Value(binary_op(self.val, op, rhs))
        /\ call' = [NoCall EXCEPT !.op = op, !.pre = self.val, !.arg = rhs]
    /\ pc' = "consumed"
    /\ UNCHANGED <<self, moved, ref, drops, nextObj, observed, panic_immediate_abort>>

\* self.build_hasher()
do_build_hasher ==
    self.ty = "Either" /\ ByRef("build_hasher", build_hasher(self.val))

\* An into_inner that knows the Left payload only.
into_inner_of_left(e) ==
    CASE e.tag = "Left" -> e.v
      [] e.tag = "Right" -> NoVal

\* match self { Left(x) | Right(x) => x }
into_inner(e) ==
    CASE e.tag \in {"Left", "Right"} -> e.v

\* self.into_inner() on an Either<T, T>
do_into_inner ==
    self.ty = "Either" /\ ByValue("into_inner", into_inner(self.val))

\* ---------------------------------------------------------------------------
\* Double-ended, exact-size and fused iteration (iter.rs)
\* ---------------------------------------------------------------------------

\* The methods that yield an item, and those that look at the length.
ItemMethods == {"next", "next_back", "nth", "nth_back"}

LengthMethods == {"size_hint", "len"}

\* The arguments of nth and nth_back; the other methods take none.
NthArgs(method) == IF method \in {"nth", "nth_back"} THEN 0..1 ELSE {0}

\* A payload iterator that is double-ended, of exact size and fused, like
\* vec::IntoIter: it is left with items[lo + 1 .. hi].
DoubleEndedIters ==
    {[items |-> [i \in 1..n |-> i], lo |-> 0, hi |-> n] : n \in 0..MaxLen}

EitherDoubleEndedIters ==
    {[tag |-> t, obj |-> 1, v |-> x] : t \in Tags, x \in DoubleEndedIters}

\* x.next(), x.next_back(), x.nth(n), x.nth_back(n), x.size_hint(), x.len() on
\* the payload: what the call returns, and the payload after it.
payload_iter_call(x, method, n) ==
    CASE method = "next" ->
            IF x.lo < x.hi
            THEN [out |-> Some(x.items[x.lo + 1]), it |-> [x EXCEPT !.lo = @ + 1]]
            ELSE [out |-> Option_None, it |-> x]
      [] method = "next_back" ->
            IF x.lo < x.hi
            THEN [out |-> Some(x.items[x.hi]), it |-> [x EXCEPT !.hi = @ - 1]]
            ELSE [out |-> Option_None, it |-> x]
      [] method = "nth" ->
            IF x.lo + n < x.hi
            THEN [out |-> Some(x.items[x.lo + n + 1]), it |-> [x EXCEPT !.lo = @ + n + 1]]
            ELSE [out |-> Option_None, it |-> [x EXCEPT !.lo = x.hi]]
      [] method = "nth_back" ->
            IF x.lo + n < x.hi
            THEN [out |-> Some(x.items[x.hi - n]), it |-> [x EXCEPT !.hi = @ - n - 1]]
            ELSE [out |-> Option_None, it |-> [x EXCEPT !.hi = x.lo]]
      [] method = "size_hint" ->
            [out |-> <<x.hi - x.lo, Some(x.hi - x.lo)>>, it |-> x]
      [] method = "len" ->
            [out |-> x.hi - x.lo, it |-> x]

\* A forwarding whose Right arm takes from the front whatever the method.
IntoIter_call_front_only(it, method, n) ==
    CASE it.tag = "Left" ->
            [out |-> payload_iter_call(it.v, method, n).out,
             it |-> Left(it.obj, payload_iter_call(it.v, method, n).it),
             by |-> "L"]
      [] it.tag = "Right" ->
            [out |-> payload_iter_call(it.v, IF method = "next_back" THEN "next" ELSE method, n).out,
             it |-> Right(it.obj, payload_iter_call(it.v, IF method = "next_back" THEN "next" ELSE method, n).it),
             by |-> "R"]

\* match self.0 { Left(ref mut x) => x.next_back(),
\*                Right(ref mut x) => x.next_back() } and the like.
IntoIter_call(it, method, n) ==
    CASE it.tag = "Left" ->
            [out |-> payload_iter_call(it.v, method, n).out,
             it |-> Left(it.obj, payload_iter_call(it.v, method, n).it),
             by |-> "L"]
      [] it.tag = "Right" ->
            [out |-> payload_iter_call(it.v, method, n).out,
             it |-> Right(it.obj, payload_iter_call(it.v, method, n).it),
             by |-> "R"]

\* it.next(), it.next_back(), it.nth(n), it.nth_back(n), it.size_hint(),
\* it.len() in any order: the caller keeps what each call returned.
do_iter_call ==
    /\ self.ty = "DoubleEndedIntoIter"
    /\ pc = "idle"
    /\ Len(observed) < MaxCalls
    /\ \E method \in ItemMethods \cup LengthMethods :
        \E n \in NthArgs(method) :
            LET r == IntoIter_call(self.val, method, n)
            IN /\ self' = [self EXCEPT !.val = r.it]
               /\ ret' = Value(r.out)
               /\ call' = [NoCall EXCEPT !.op = method, !.pre = self.val, !.arg = n]
               /\ observed' = Append(observed,
                                [by |-> r.by, method |-> method, n |-> n, out |-> r.out])
    /\ UNCHANGED <<moved, pc, ref, drops, nextObj, panic_immediate_abort>>

\* The values of type ty.
Typed(ty, values) == {[ty |-> ty, val |-> e] : e \in values}

\* The calls are made on a value of one of the types.
InitV ==
    /\ \/ self \in Typed("Either", Eithers)
       \/ self \in Typed("EitherOption", EitherOptions)
       \/ self \in Typed("EitherResult", EitherResults)
       \/ self \in Typed("ResultEither", ResultEithers)
       \/ self \in Typed("EitherIterable", EitherIterables)
       \/ \E ty \in FutureTypes : self \in Typed(ty, EitherFutures)
       \/ self \in Typed("EitherSerializer", EitherSerializers)
       \/ \E ty \in DOMAIN DeMethods : self \in Typed(ty, EitherDes)
       \/ self \in ErrorTypes
       \/ self \in Typed("EitherStream", EitherStreams)
       \/ self \in Typed("DoubleEndedIntoIter", EitherDoubleEndedIters)
    /\ moved = FALSE
    /\ pc = "idle"
    /\ call = NoCall
    /\ ref = "none"
    /\ drops = [o \in ObjIds |-> 0]
    /\ nextObj = 2
    /\ ret = NoRet
    /\ observed = << >>
    /\ panic_immediate_abort = FALSE

NextV ==
    \/ do_left
    \/ do_right
    \/ do_as_left
    \/ do_as_right
    \/ do_as_left_mut
    \/ do_as_right_mut
    \/ do_cmp
    \/ do_serialize
    \/ do_deserialize
    \/ do_option_transpose
    \/ do_from_either_option
    \/ do_result_transpose
    \/ do_from_either_result
    \/ do_from_either_of_results
    \/ do_from_result_of_eithers
    \/ do_into_iter
    \/ do_next
    \/ do_size_hint
    \/ do_poll
    \/ do_serialize_value
    \/ do_serialize_compound
    \/ do_serialize_element
    \/ do_end
    \/ do_de_call
    \/ do_visit
    \/ do_de_next
    \/ do_enum_access
    \/ do_ser_error
    \/ do_de_error
    \/ do_io_call
    \/ do_into
    \/ do_try_into
    \/ do_and
    \/ do_and_then
    \/ do_map
    \/ do_map_with
    \/ do_unary_op
    \/ do_binary_op
    \/ do_build_hasher
    \/ do_into_inner
    \/ do_iter_call

SpecV == InitV /\ [][NextV]_vars

\* ---------------------------------------------------------------------------
\* Properties
\* ---------------------------------------------------------------------------

\* The ops that replace the container through insert, or-insert and and-modify.
Combinators ==
    {"insert_left", "insert_right", "left_or_insert", "right_or_insert",
     "left_or_insert_with", "right_or_insert_with", "left_and_modify", "right_and_modify"}

\* The ops that take the container by mutable reference.
MutRefOps ==
    Combinators \cup
    {"as_mut", "as_deref_mut", "write_ref", "add_assign", "extend", "clone_from",
     "hasher_write", "io_write", "write_str", "next", "poll"}

\* The call named op has returned to its caller, which still has the container.
Completed(op) == call.op = op /\ call.via = "none" /\ pc \in {"idle", "ub"}

\* Any method call on the container.
Method ==
    \/ observe \/ as_mut \/ as_deref_mut \/ write_ref \/ add_assign \/ extend
    \/ hasher_write \/ io_write \/ write_str \/ next \/ poll \/ clone_from
    \/ insert_left \/ insert_right \/ left_or_insert \/ right_or_insert
    \/ left_or_insert_with \/ right_or_insert_with \/ left_and_modify \/ right_and_modify
    \/ do_flip \/ do_fold \/ do_fold_with
    \/ do_left_expect \/ do_right_expect \/ do_left_unwrap \/ do_right_unwrap

\* C1: a container in use is exactly one of Left and Right (is_left() XOR
\* is_right(), Left(v) is left and not right, Right(v) is right and not left),
\* and the payload its tag designates is a valid value: it has not been moved
\* out and its destructor has not run.
C1_ExactlyOneLive ==
    /\ \A o \in ObjIds, x \in Vals :
        /\ is_left(Left(o, x)) /\ ~is_right(Left(o, x))
        /\ is_right(Right(o, x)) /\ ~is_left(Right(o, x))
    /\ pc = "idle" =>
        /\ self.tag \in Tags
        /\ is_left(self) # is_right(self)
        /\ ~moved
        /\ drops[self.obj] = 0

\* C2: the payload handed to f by an or-insert-with or and-modify combinator is
\* finalized exactly once: no destructor runs twice, and once the container is
\* gone the destructor of that payload has run once, whether f returned or
\* panicked.
C2_FinalizedOnce ==
    /\ \A o \in ObjIds : drops[o] <= 1
    /\ (call.fn = "f" /\ call.op \in Combinators /\ pc \in {"end", "ub"})
        => drops[call.farg.obj] = 1

\* C3: the read-then-overwrite combinators are atomic with respect to f: while f
\* runs no method of the container can be called, and no reader ever sees the
\* container with its payload moved out and not yet overwritten.
C3_AtomicForF ==
    /\ pc = "in_f" => ~ENABLED Method
    /\ ~observed.moved

\* C4 as claimed: a step of a method that takes the container by mutable
\* reference changes the tag only if it is an insert, or-insert or and-modify
\* combinator.
C4_TagOnlyByCombinators ==
    [][(call'.op \in MutRefOps /\ self'.tag # self.tag) => call'.op \in Combinators]_vars

\* C4 as amended: a step of a method that takes the container by mutable
\* reference changes the tag only if it is an insert, or-insert or and-modify
\* combinator, or clone_from with a source of the other tag, which leaves the
\* container with the tag of the source.
C4_TagFrame ==
    [][(call'.op \in MutRefOps /\ self'.tag # self.tag) =>
            \/ call'.op \in Combinators
            \/ /\ call'.op = "clone_from"
               /\ call'.src.tag # self.tag
               /\ self'.tag = call'.src.tag]_vars

C4_Witness ==
    /\ pc = "idle"
    /\ call.op \in {"add_assign", "extend", "hasher_write", "io_write", "write_str", "next", "poll"}
    /\ self.tag = call.pre.tag
    /\ self.v # call.pre.v

\* C5: left_or_insert(value) and left_or_insert_with(f) leave Left(x) as it is,
\* without calling f, and return a reference to x; on Right(y) the container
\* becomes Left(value), respectively Left(f(y)) with f called once on y, and
\* the reference returned designates the new Left payload.  Symmetric for
\* right_or_insert and right_or_insert_with.
C5_OrInsert ==
    /\ Completed("left_or_insert") =>
        /\ ref = "Left"
        /\ call.fcalls = 0
        /\ IF call.pre.tag = "Left" THEN self = call.pre
           ELSE self.tag = "Left" /\ self.v = call.arg /\ self.obj # call.pre.obj
    /\ Completed("right_or_insert") =>
        /\ ref = "Right"
        /\ call.fcalls = 0
        /\ IF call.pre.tag = "Right" THEN self = call.pre
           ELSE self.tag = "Right" /\ self.v = call.arg /\ self.obj # call.pre.obj
    /\ Completed("left_or_insert_with") =>
        /\ ref = "Left"
        /\ IF call.pre.tag = "Left" THEN self = call.pre /\ call.fcalls = 0
           ELSE /\ call.fcalls = 1
                /\ call.farg.obj = call.pre.obj /\ call.farg.v = call.pre.v
                /\ self.tag = "Left" /\ self.obj = call.fret.obj /\ self.v = call.fret.v
    /\ Completed("right_or_insert_with") =>
        /\ ref = "Right"
        /\ IF call.pre.tag = "Right" THEN self = call.pre /\ call.fcalls = 0
           ELSE /\ call.fcalls = 1
                /\ call.farg.obj = call.pre.obj /\ call.farg.v = call.pre.v
                /\ self.tag = "Right" /\ self.obj = call.fret.obj /\ self.v = call.fret.v

C5_Witness ==
    /\ Completed("left_or_insert_with")
    /\ pc = "idle"
    /\ call.pre.tag = "Right"
    /\ call.fcalls = 1
    /\ self.tag = "Left"
    /\ self.obj # call.pre.obj

\* C6: left_and_modify(f) on Left(x) replaces the container with f(x), Left or
\* Right, calling f once on x; on Right(y) f is not called and the container
\* is unchanged.  Symmetric for right_and_modify.  Both return the container.
C6_AndModify ==
    /\ Completed("left_and_modify") =>
        /\ ref = "Self"
        /\ IF call.pre.tag = "Left"
           THEN /\ call.fcalls = 1
                /\ call.farg.obj = call.pre.obj /\ call.farg.v = call.pre.v
                /\ self = call.fret
           ELSE call.fcalls = 0 /\ self = call.pre
    /\ Completed("right_and_modify") =>
        /\ ref = "Self"
        /\ IF call.pre.tag = "Right"
           THEN /\ call.fcalls = 1
                /\ call.farg.obj = call.pre.obj /\ call.farg.v = call.pre.v
                /\ self = call.fret
           ELSE call.fcalls = 0 /\ self = call.pre

C6_Witness ==
    /\ Completed("left_and_modify")
    /\ pc = "idle"
    /\ call.pre.tag = "Left"
    /\ call.fcalls = 1
    /\ self.tag = "Right"

\* C7: after insert_left(value) the container is Left(value) whatever tag it
\* had, the old payload has been dropped exactly once and the reference
\* returned designates the new payload: a write through it shows in the
\* container and keeps the tag.  Symmetric for insert_right.
C7_Insert ==
    /\ Completed("insert_left") =>
        /\ self.tag = "Left" /\ self.v = call.arg /\ self.obj # call.pre.obj
        /\ drops[call.pre.obj] = 1
        /\ ref = "Left"
    /\ Completed("insert_right") =>
        /\ self.tag = "Right" /\ self.v = call.arg /\ self.obj # call.pre.obj
        /\ drops[call.pre.obj] = 1
        /\ ref = "Right"
    /\ (Completed("write_ref") /\ call.via \in {"insert_left", "insert_right"}) =>
        /\ self.tag = call.pre.tag /\ self.obj = call.pre.obj
        /\ self.v = call.arg

\* The outcome of left_expect / left_unwrap on Left and of right_expect /
\* right_unwrap on Right: the payload, and no panic.
UnwrapReturns ==
    /\ ret.kind = "value"
    /\ ret.e.obj = call.pre.obj
    /\ ret.e.v = call.pre.v

C9_FlipInvolution ==
    /\ \A e \in Either : flip(flip(e)) = e
    /\ call.op = "flip" =>
        /\ self.tag \in Tags /\ self.tag # call.pre.tag
        /\ self.obj = call.pre.obj /\ self.v = call.pre.v
        /\ call.prev # None => self = call.prev

C9_Witness ==
    /\ call.op = "flip"
    /\ call.prev # None
    /\ call.prev.tag = "Right"
    /\ self.tag = "Right"

\* C10: fold(l, r) on Left(v) returns l(v) and on Right(v) returns r(v): one
\* closure is called, once, on the payload, the other is not called, and what
\* it returns is returned.  fold_with(ctx, l, r) is the same with ctx passed to
\* the closure that runs.
C10_Fold ==
    call.op \in {"fold", "fold_with"} =>
        /\ call.fcalls = 1
        /\ call.fn = (IF call.pre.tag = "Left" THEN "l" ELSE "r")
        /\ call.farg.v = call.pre.v
        /\ call.fctx = call.arg
        /\ call.op = "fold" => call.fctx = NoVal
        /\ call.op = "fold_with" => call.fctx \in Vals
        /\ ret.kind = "value"
        /\ ret.e.v = call.fret.v

C10_Witness ==
    /\ call.op = "fold_with"
    /\ call.pre.tag = "Right"
    /\ call.fn = "r"
    /\ pc = "consumed"

C12_Lexicographic ==
    call.op = "cmp" =>
        LET a == call.pre
            b == ret.e.other
        IN /\ (a.tag = "Left" /\ b.tag = "Right") =>
                ret.e.lt /\ ret.e.ord = "Less" /\ ~ret.e.eq
           /\ (a.tag = "Right" /\ b.tag = "Left") =>
                ~ret.e.lt /\ ret.e.ord = "Greater" /\ ~ret.e.eq
           /\ a.tag = b.tag =>
                /\ ret.e.eq <=> (a.v = b.v)
                /\ ret.e.lt <=> (a.v < b.v)
                /\ ret.e.ord = "Equal" <=> (a.v = b.v)
                /\ ret.e.ord = "Greater" <=> (a.v > b.v)
           /\ ret.e.eq => ret.e.hash = ret.e.hash_other

\* C12: a Left with the larger payload was compared with a Right with the
\* smaller one.
C12_Witness ==
    /\ call.op = "cmp"
    /\ call.pre.tag = "Left" /\ ret.e.other.tag = "Right"
    /\ call.pre.v > ret.e.other.v
    /\ ret.e.lt

\* C13: decoding the encoding of an Either value x gives a value equal to x,
\* with the tag of x, for Left and for Right and in every format.
C13_RoundTrip ==
    call.op = "deserialize" =>
        /\ ret.e.res = "Ok"
        /\ ret.e.ok.tag = call.pre.tag
        /\ eq(ret.e.ok, call.pre)

\* C13: a Right value came back from its encoding.
C13_Witness ==
    /\ call.op = "deserialize"
    /\ call.pre.tag = "Right"
    /\ ret.e.res = "Ok"
    /\ ret.e.ok.v = call.pre.v

\* The transposition combinators, their inputs and what each gives for y.
Transpositions == {"option_transpose", "from_either_option", "result_transpose"}

TransposeInputs(op) == IF op = "result_transpose" THEN EitherResults ELSE EitherOptions

Transposed(op, y) ==
    CASE op = "option_transpose" -> option_transpose(y)
      [] op = "from_either_option" -> from_either_option(y)
      [] op = "result_transpose" -> result_transpose(y)

C15_ResultTranspose ==
    call.op \in {"result_transpose", "from_either_result"} =>
        /\ call.pre.v.res = "Ok" =>
            /\ ret.e.res = "Ok"
            /\ ret.e.ok.tag = call.pre.tag
            /\ ret.e.ok.v = call.pre.v.ok
        /\ call.pre.v.res = "Err" =>
            /\ ret.e.res = "Err"
            /\ ret.e.err = call.pre.v.err
        /\ result_transpose(call.pre) = from_either_result(call.pre)

\* C15: the From conversion was given a Right(Ok(x)).
C15_Witness ==
    /\ call.op = "from_either_result"
    /\ call.pre.tag = "Right"
    /\ call.pre.v.res = "Ok"
    /\ ret.e.res = "Ok"

\* C16: the two conversions between Either<Result, Result> and
\* Result<Either, Either> keep the side and the outcome, and one after the
\* other, in either order, gives the original value back.
C16_MutualInverse ==
    /\ call.op = "from_either_of_results" =>
        /\ ret.e.res = call.pre.v.res
        /\ ret.e.res = "Ok" => ret.e.ok.tag = call.pre.tag /\ ret.e.ok.v = call.pre.v.ok
        /\ ret.e.res = "Err" => ret.e.err.tag = call.pre.tag /\ ret.e.err.v = call.pre.v.err
        /\ call.prev # None => self.val = call.prev
    /\ call.op = "from_result_of_eithers" =>
        /\ ret.e.v.res = call.pre.res
        /\ call.pre.res = "Ok" => ret.e.tag = call.pre.ok.tag /\ ret.e.v.ok = call.pre.ok.v
        /\ call.pre.res = "Err" => ret.e.tag = call.pre.err.tag /\ ret.e.v.err = call.pre.err.v
        /\ call.prev # None => self.val = call.prev

\* C16: a Right(Err(e)) went to Err(Right(e)) and came back.
C16_Witness ==
    /\ call.op = "from_result_of_eithers"
    /\ call.prev # None
    /\ call.prev.tag = "Right"
    /\ call.prev.v.res = "Err"
    /\ self.val = call.prev

\* C16: an Err(Right(e)) went to Right(Err(e)) and came back.
C16_WitnessBack ==
    /\ call.op = "from_either_of_results"
    /\ call.prev # None
    /\ call.prev.res = "Err"
    /\ self.val = call.prev

\* C17: the iterator built from Left(it) or Right(it) yields, call after call,
\* the items of it in their order and then None, and its size_hint() is at
\* every position the one the underlying iterator reports there.
C17_IterForwarding ==
    self.ty = "IntoIter" =>
        LET items == self.val.v.items
        IN /\ Len(observed) <= Len(items)
           /\ observed = SubSeq(items, 1, Len(observed))
           /\ call.op = "into_iter" =>
                /\ self.val.tag = call.pre.tag
                /\ items = call.pre.v.items
                /\ observed = << >>
           /\ call.op = "next" =>
                /\ self.val.tag = call.pre.tag
                /\ call.pre.v.pos < Len(items) =>
                    /\ ret.e = Some(items[call.pre.v.pos + 1])
                    /\ Len(observed) = call.pre.v.pos + 1
                /\ call.pre.v.pos >= Len(items) =>
                    /\ ret.e = Option_None
                    /\ observed = items
           /\ call.op = "size_hint" =>
                /\ self.val = call.pre
                /\ ret.e = payload_size_hint(self.val.v)
                /\ self.val.v.kind = "exact" =>
                    ret.e = <<Len(items) - Len(observed), Some(Len(items) - Len(observed))>>

\* C17: an iterator built from a Right has yielded all the items of a payload
\* of the greatest length and then None.
C17_Witness ==
    /\ self.ty = "IntoIter"
    /\ self.val.tag = "Right"
    /\ call.op = "next"
    /\ ret.e = Option_None
    /\ Len(observed) = MaxLen
    /\ observed = self.val.v.items

\* C18: a poll polls the live payload, once, and no other; it returns Pending
\* exactly when that poll returns Pending and Ready exactly when it returns
\* Ready; the tag never changes and the future holds nothing but its payload,
\* which is as its own poll left it.
C18_PollForwarding ==
    (self.ty \in FutureTypes) =>
        /\ \A i \in 1..Len(observed) :
            observed[i] = (IF self.val.tag = "Left" THEN "L" ELSE "R")
        /\ Len(observed) = self.val.v.polls
        /\ DOMAIN self.val = {"tag", "obj", "v"}
        /\ call.op = "poll" =>
            /\ self.val.tag = call.pre.tag
            /\ self.val.v = payload_poll(call.pre.v).fut
            /\ self.val.v.polls = call.pre.v.polls + 1
            /\ ret.e.poll = payload_poll(call.pre.v).res.poll
            /\ (ret.e.poll = "Pending") <=> (call.pre.v.wait > 0)
            /\ (ret.e.poll = "Ready") <=> (call.pre.v.wait = 0)
            /\ ret.e.poll = "Ready" => ret.e.val.v = call.pre.v.out

\* C18: a Right future was polled while pending, and then polled to Ready.
C18_Witness ==
    /\ self.ty \in FutureTypes
    /\ self.val.tag = "Right"
    /\ call.op = "poll"
    /\ Len(observed) = MaxPolls + 1
    /\ ret.e.poll = "Ready"

\* C19 as claimed: the result of a poll has no tag when the two sides have the
\* same result type, and has the tag of the live side when they differ.
C19_UnifiedOrTagged ==
    (self.ty \in FutureTypes /\ call.op = "poll" /\ ret.e.poll = "Ready") =>
        /\ self.ty = "Either<Future<T>, Future<T>>" => ret.e.val.tag = "Bare"
        /\ self.ty = "Either<Future<T>, Future<U>>" => ret.e.val.tag = call.pre.tag

\* C19 as amended: a Ready result always has the tag of the live side, the
\* Left side's in Left and the Right side's in Right, whether the two sides
\* have the same result type or not; Pending has no tag.
C19_AlwaysTagged ==
    (self.ty \in FutureTypes /\ call.op = "poll") =>
        /\ ret.e.poll = "Ready" =>
            /\ ret.e.val.tag = call.pre.tag
            /\ ret.e.val.v = call.pre.v.out
        /\ ret.e.poll = "Pending" => ret.e = Pending

\* C19: a Left future whose two sides have the same result type became ready.
C19_Witness ==
    /\ self.ty = "Either<Future<T>, Future<T>>"
    /\ call.op = "poll"
    /\ call.pre.tag = "Left"
    /\ ret.e.poll = "Ready"
    /\ ret.e.val.tag = "Left"

\* The calls of the Serializer and compound serializer methods.
SerializerOps == ValueMethods \cup DOMAIN CompoundMethods \cup {"end"}

ElementOps == UNION {ElementMethods[t] : t \in DOMAIN ElementMethods}

\* C20: every Serializer method, and end, calls the method of the same name on
\* the live side and on no other, and returns its outcome with the live tag:
\* Ok(Left(v)) or Err(Left(e)) on Left, Ok(Right(v)) or Err(Right(e)) on Right;
\* the element-level methods return Ok(()) or the live side's error with the
\* live tag.  The outcome is an error exactly when the payload's is.
C20_SerializerForwarding ==
    (self.ty \in {"EitherSerializer", "EitherCompound"} /\ call.op # "none") =>
        LET side == IF call.pre.tag = "Left" THEN "L" ELSE "R"
        IN /\ Len(observed) > 0
           /\ observed[Len(observed)] = [by |-> side, method |-> call.op]
           /\ \A i \in 1..Len(observed) : observed[i].by = side
           /\ ret.e.res = call.fret.res
           /\ call.op \in SerializerOps =>
                /\ call.fret.res = "Ok" =>
                    /\ ret.e.ok.tag = call.pre.tag
                    /\ ret.e.ok.v = call.fret.ok
                /\ call.fret.res = "Err" =>
                    /\ ret.e.err.tag = call.pre.tag
                    /\ ret.e.err.v = call.fret.err
           /\ call.op \in ElementOps =>
                /\ call.fret.res = "Ok" => ret.e = Ok(Unit)
                /\ call.fret.res = "Err" =>
                    /\ ret.e.err.tag = call.pre.tag
                    /\ ret.e.err.v = call.fret.err
                /\ self.val.tag = call.pre.tag

\* C20: the end of a Right compound serializer failed after an element had
\* been written, and the error came back as the Right side's.
C20_Witness ==
    /\ self.ty = "EitherCompound"
    /\ call.op = "end"
    /\ call.pre.tag = "Right"
    /\ call.pre.v.elems > 0
    /\ ret.e.res = "Err"
    /\ ret.e.err.tag = "Right"

\* The calls that wrap the error only, the value only, and both.
ErrTaggingOps ==
    UNION {DeMethods[role] : role \in {"Deserializer", "SeqAccess", "MapAccess", "VariantAccess"}}

OkTaggingOps == DeMethods["DeserializeSeed"] \cup DeMethods["Visitor"]

DeOps == UNION {DeMethods[role] : role \in DOMAIN DeMethods}

\* C21 as stated: every deserialization method returns a result, success or
\* failure, that carries the live side's tag.
C21_EveryResultTagged ==
    call.op \in DeOps =>
        /\ ret.e.res = "Err" => ret.e.err.tag = call.pre.tag
        /\ ret.e.res = "Ok" =>
            IF call.op \in DeMethods["EnumAccess"]
            THEN ret.e.ok.variant.tag = call.pre.tag
            ELSE ret.e.ok.tag = call.pre.tag

\* C21: every deserialization method calls the method of the same name on the
\* live side and on no other, and succeeds exactly when the payload does.  The
\* part of the result whose type is the Either's carries the live tag and the
\* other part is the payload's, untouched: Deserializer, SeqAccess, MapAccess
\* and VariantAccess wrap the error only, DeserializeSeed and Visitor wrap the
\* value only, EnumAccess wraps the variant accessor and the error.
C21_DeForwarding ==
    call.op \in DeOps =>
        LET side == IF call.pre.tag = "Left" THEN "L" ELSE "R"
        IN /\ Len(observed) > 0
           /\ observed[Len(observed)] = [by |-> side, method |-> call.op]
           /\ \A i \in 1..Len(observed) : observed[i].by = side
           /\ ret.e.res = call.fret.res
           /\ call.op \in ErrTaggingOps =>
                /\ call.fret.res = "Ok" => ret.e = call.fret
                /\ call.fret.res = "Err" =>
                    /\ ret.e.err.tag = call.pre.tag
                    /\ ret.e.err.v = call.fret.err
           /\ call.op \in OkTaggingOps =>
                /\ call.fret.res = "Ok" =>
                    /\ ret.e.ok.tag = call.pre.tag
                    /\ ret.e.ok.v = call.fret.ok
                /\ call.fret.res = "Err" => ret.e = call.fret
           /\ call.op \in DeMethods["EnumAccess"] =>
                /\ call.fret.res = "Ok" =>
                    /\ ret.e.ok.value = call.fret.ok.value
                    /\ ret.e.ok.variant.tag = call.pre.tag
                    /\ ret.e.ok.variant.v = call.fret.ok.variant
                /\ call.fret.res = "Err" =>
                    /\ ret.e.err.tag = call.pre.tag
                    /\ ret.e.err.v = call.fret.err

\* C21: a Right deserializer succeeded and the value came back as the visitor
\* made it, with no tag.
C21_Witness ==
    /\ self.ty = "Deserializer"
    /\ call.op = "deserialize_any"
    /\ call.pre.tag = "Right"
    /\ ret.e.res = "Ok"
    /\ ret.e.ok.tag = "Bare"

\* C22: every error constructor of the serialization and the deserialization
\* error type returns a Left error, and its payload is what L's constructor of
\* the same name builds from the same arguments; none returns Right.
C22_ErrorsAreLeft ==
    (self.ty \in {"ser::Error", "de::Error"} /\ call.op # "none") =>
        /\ ret.e.tag = "Left"
        /\ ret.e.v = payload_error("L", call.op, call.pre)
        /\ self.val = ret.e

\* C22: invalid_value built a Left error from its two arguments.
C22_Witness ==
    /\ self.ty = "de::Error"
    /\ call.op = "invalid_value"
    /\ Len(call.pre) = 2
    /\ ret.e.tag = "Left"
    /\ ret.e.v.ctor = "invalid_value"

\* C23 as stated: the failure of a byte-stream operation comes back wrapped in
\* the tag of the side that produced it.
C23_FailureRetagged ==
    (self.ty = "EitherStream" /\ call.op \in IoMethods /\ ret.e.res = "Err") =>
        ret.e.err.tag = call.pre.tag

\* C23: a byte-stream operation calls the same operation on the live side and
\* on no other, and returns exactly what it returned: a failure is the
\* payload's io::Error itself, neither swallowed nor wrapped in a tag, and
\* the Either keeps its side.
C23_IoForwarding ==
    (self.ty = "EitherStream" /\ call.op \in IoMethods) =>
        LET side == IF call.pre.tag = "Left" THEN "L" ELSE "R"
        IN /\ Len(observed) > 0
           /\ observed[Len(observed)] = [by |-> side, method |-> call.op]
           /\ \A i \in 1..Len(observed) : observed[i].by = side
           /\ ret.e = call.fret
           /\ self.val = call.pre

\* C23: a write on a Right stream failed after an earlier call, and the error
\* came back with no tag.
C23_Witness ==
    /\ self.ty = "EitherStream"
    /\ call.op = "write"
    /\ call.pre.tag = "Right"
    /\ Len(observed) > 1
    /\ ret.e.res = "Err"
    /\ ret.e.err.tag = "Bare"

\* The one call of the conversion that a conversion to the other side makes.
ConvertedOnce(side, method) ==
    observed = <<[by |-> side, method |-> method, arg |-> call.pre.v]>>

\* C24: into_left and into_right return the live payload unchanged, without
\* calling the conversion, when the requested side is the live one, and
\* otherwise what the conversion of the other side's payload returns;
\* try_into_left and try_into_right return Ok(payload) or exactly the result
\* of the fallible conversion, whose failure comes back as Err.
C24_Conversions ==
    /\ call.op = "into_left" =>
        IF call.pre.tag = "Left"
        THEN ret.e = call.pre.v /\ observed = << >>
        ELSE ret.e = call.fret /\ ConvertedOnce("R", "into")
    /\ call.op = "into_right" =>
        IF call.pre.tag = "Right"
        THEN ret.e = call.pre.v /\ observed = << >>
        ELSE ret.e = call.fret /\ ConvertedOnce("L", "into")
    /\ call.op = "try_into_left" =>
        IF call.pre.tag = "Left"
        THEN ret.e = Ok(call.pre.v) /\ observed = << >>
        ELSE ret.e = call.fret /\ ConvertedOnce("R", "try_into")
    /\ call.op = "try_into_right" =>
        IF call.pre.tag = "Right"
        THEN ret.e = Ok(call.pre.v) /\ observed = << >>
        ELSE ret.e = call.fret /\ ConvertedOnce("L", "try_into")
    /\ call.op \in {"into_left", "into_right", "try_into_left", "try_into_right"} =>
        ret.kind = "value"

\* C24: try_into_left on a Right value whose conversion failed returned the
\* conversion's Err.
C24_Witness ==
    /\ call.op = "try_into_left"
    /\ call.pre.tag = "Right"
    /\ ret.e.res = "Err"
    /\ ret.e = call.fret
    /\ Len(observed) = 1

\* The one call that a combinator made: of closure f on the payload x.
CalledOnce(f, x) == observed = <<[by |-> f, method |-> "call_once", arg |-> x]>>

\* C25: left_and(other) returns other when self is Left and self unchanged
\* when it is Right; left_and_then(f) returns f(x), calling f exactly once,
\* when self is Left(x), and Right(x) unchanged without calling f otherwise;
\* right_and and right_and_then are the mirror images.
C25_AndShortCircuit ==
    /\ call.op = "left_and" =>
        ret.e = IF call.pre.tag = "Left" THEN call.src ELSE call.pre
    /\ call.op = "right_and" =>
        ret.e = IF call.pre.tag = "Right" THEN call.src ELSE call.pre
    /\ call.op = "left_and_then" =>
        IF call.pre.tag = "Left"
        THEN ret.e = call.fret /\ CalledOnce("f", call.pre.v)
        ELSE ret.e = call.pre /\ observed = << >>
    /\ call.op = "right_and_then" =>
        IF call.pre.tag = "Right"
        THEN ret.e = call.fret /\ CalledOnce("f", call.pre.v)
        ELSE ret.e = call.pre /\ observed = << >>

\* C25: left_and_then on a Left value returned the Right value that f made.
C25_Witness ==
    /\ call.op = "left_and_then"
    /\ call.pre.tag = "Left"
    /\ ret.e.tag = "Right"
    /\ ret.e.obj = 2
    /\ Len(observed) = 1

\* C26: map and map_with call exactly one of the two functions, the one of the
\* live side, on the payload (and the context), and wrap its result in the
\* same tag; left_map and right_map call f on the named side only and return
\* the other side unchanged.
C26_MapKeepsTag ==
    /\ call.op \in {"map", "map_with", "left_map", "right_map"} =>
        ret.e.tag = call.pre.tag
    /\ call.op = "map" =>
        /\ ret.e.v = call.fret
        /\ CalledOnce(IF call.pre.tag = "Left" THEN "l" ELSE "r", call.pre.v)
    /\ call.op = "map_with" =>
        /\ ret.e.v = call.fret
        /\ CalledOnce(IF call.pre.tag = "Left" THEN "l" ELSE "r",
                      <<call.pre.v, call.arg>>)
    /\ call.op = "left_map" =>
        IF call.pre.tag = "Left"
        THEN ret.e.v = call.fret /\ CalledOnce("f", call.pre.v)
        ELSE ret.e = call.pre /\ observed = << >>
    /\ call.op = "right_map" =>
        IF call.pre.tag = "Right"
        THEN ret.e.v = call.fret /\ CalledOnce("f", call.pre.v)
        ELSE ret.e = call.pre /\ observed = << >>

\* C26: map on a Right value called r and wrapped a new payload in Right.
C26_Witness ==
    /\ call.op = "map"
    /\ call.pre.tag = "Right"
    /\ ret.e.tag = "Right"
    /\ ret.e.v # call.pre.v
    /\ observed[1].by = "r"

\* The side whose payload self held before the call.
PreSide == IF call.pre.tag = "Left" THEN "L" ELSE "R"

\* C27: a value-returning operator gives the payload's result under the tag
\* self had: Left(x) op rhs = Left(x op rhs), Right(y) op rhs = Right(y op rhs),
\* and build_hasher gives Left(b.build_hasher()) or Right(b.build_hasher());
\* none turns Left into Right or Right into Left.
C27_OperatorsKeepTag ==
    /\ call.op \in UnaryOps \cup BinaryOps =>
        /\ ret.e.tag = call.pre.tag
        /\ ret.e.v = payload_op(PreSide, call.op, call.pre.v, call.arg)
    /\ call.op = "build_hasher" =>
        /\ ret.e.tag = call.pre.tag
        /\ ret.e.v = payload_op(PreSide, "build_hasher", call.pre.v, NoVal)
        /\ self.val = call.pre

\* C27: a Right value plus rhs gave Right of the Right payload's sum.
C27_Witness ==
    /\ call.op = "add"
    /\ call.pre.tag = "Right"
    /\ ret.e.tag = "Right"
    /\ ret.e.v.by = "R"
    /\ ret.e.v.rhs = call.arg

\* C28: into_inner returns the payload whatever the tag:
\* Left(x).into_inner() = x = Right(x).into_inner().
C28_IntoInner ==
    call.op = "into_inner" =>
        /\ ret.e = call.pre.v
        /\ into_inner(Left(1, call.pre.v)) = ret.e
        /\ into_inner(Right(1, call.pre.v)) = ret.e

\* C28: into_inner on a Right value returned its payload.
C28_Witness ==
    /\ call.op = "into_inner"
    /\ call.pre.tag = "Right"
    /\ ret.e = call.pre.v
    /\ ret.e \in Vals

\* The live underlying iterator on its own, after the first i calls that the
\* caller made.
RECURSIVE Underlying(_)
Underlying(i) ==
    IF i = 0
    THEN [items |-> self.val.v.items, lo |-> 0, hi |-> Len(self.val.v.items)]
    ELSE payload_iter_call(Underlying(i - 1), observed[i].method, observed[i].n).it

\* C29: under any interleaving of next, next_back, nth, nth_back, size_hint and
\* len on an IntoIter, each call returns what the same call returns on the live
\* underlying iterator at that point; every call goes to the side the iterator
\* has now, so the tag never changed and no other side was touched; and once a
\* call has returned None every later call returns None.
C29_Interleaving ==
    self.ty = "DoubleEndedIntoIter" =>
        /\ \A i \in 1..Len(observed) :
            /\ observed[i].out =
                payload_iter_call(Underlying(i - 1), observed[i].method, observed[i].n).out
            /\ observed[i].by = IF self.val.tag = "Left" THEN "L" ELSE "R"
        /\ self.val.v = Underlying(Len(observed))
        /\ \A i \in 1..Len(observed), j \in 1..Len(observed) :
            (/\ i < j
             /\ observed[i].method \in ItemMethods
             /\ observed[j].method \in ItemMethods
             /\ observed[i].out = Option_None) => observed[j].out = Option_None

\* C29: a Right iterator over two items gave the last item to next_back, the
\* first to nth(0), and then None to next.
C29_Witness ==
    /\ self.ty = "DoubleEndedIntoIter"
    /\ self.val.tag = "Right"
    /\ Len(observed) = 3
    /\ observed[1].method = "next_back" /\ observed[1].out = Some(2)
    /\ observed[2].method = "nth" /\ observed[2].out = Some(1)
    /\ observed[3].method = "next" /\ observed[3].out = Option_None

\* C30: after a.clone_from(&b) the container a equals b.clone(), whatever the
\* two tags were.  When they were the same the payload of a was updated in
\* place by its own clone_from: it is the same object and no destructor ran.
\* When they differed a was replaced as a whole by b.clone() and the payload
\* it held before was dropped exactly once.
C30_CloneFrom ==
    Completed("clone_from") =>
        /\ self.tag = call.src.tag
        /\ self.v = call.src.v
        /\ call.pre.tag = call.src.tag =>
            /\ self.obj = call.pre.obj
            /\ drops[call.pre.obj] = 0
            /\ pc = "idle"
        /\ call.pre.tag # call.src.tag =>
            /\ self.obj # call.pre.obj
            /\ drops[call.pre.obj] = 1
            /\ drops[self.obj] = 0

====
